---- MODULE Spec2Model ----
(***************************************************************************)
(* Model of the research agent backend: the record store (research         *)
(* requests, workflow logs, articles), the Create / Delete handlers of     *)
(* the HTTP API and the Celery task start_research_workflow with its five  *)
(* stage functions.                                                        *)
(*                                                                         *)
(* Every call into the record store is one step of the worker.  A store    *)
(* call may raise (store unavailable): either before its commit took       *)
(* effect, or after the commit, in the refresh that follows it.            *)
(*                                                                         *)
(* Spec is the worker with the submissions and deletions that race with    *)
(* it.  SpecLive is the worker alone, with a store that never raises and   *)
(* a worker that keeps being scheduled.  SpecApi adds the pull endpoints   *)
(* and the answers the API gives.  SpecWs is the subscriber registry of    *)
(* the progress channel: connections, disconnections and broadcasts in     *)
(* the event loop of the server; SpecAlive adds its keep-alive messages.   *)
(* SpecRun is the worker of SpecLive with websockets subscribing to its    *)
(* request.  SpecGather is one call of the aggregator on every answer the  *)
(* two external sources can give.  SpecText is the ContentProcessor on a   *)
(* set of texts: its keywords and its summary of each.                     *)
(***************************************************************************)
EXTENDS Integers, Sequences, FiniteSets, TLC

\* ------------------------------------------------------------------ bounds
MaxJobs == 2          \* research requests ever created
MaxActive == 1        \* worker processes executing tasks at the same time
MaxFaults == 1        \* disturbances of a run: store calls that raise, deletions
MaxTime == 1          \* readings of the wall clock: 0..MaxTime
MaxWikiItems == 1     \* items the encyclopedia provider returns in a run
MaxHNItems == 1       \* items the news provider returns in a run
MaxSockets == 3       \* websockets that ever connect to the progress channel
MaxEvents == 2        \* events broadcast on the progress channel
MaxLoad == 4          \* websockets that connect plus events that are broadcast
MaxPages == 6         \* pages in an answer of the encyclopedia's search
MaxStories == 3       \* stories in an answer of the news source
MaxChars == 7         \* characters of a text drawn from Alphabet
MaxPieces == 3        \* pieces that follow the lead words of a text
MaxLead == 12         \* lead words of a text

\* ------------------------------------------------------------ program data
MinTopicLen == 3
MaxTopicLen == 500
WikipediaScore == 80
MaxScore == 100
TopN == 5
WikiLimit == 3
HNLimit == 2
WikiPageLimit == 5
HNChecked == 50
MinWordLen == 3
MaxKeywords == 10
MaxSentences == 3

NONE == "<None>"
NoRow == [row |-> "none"]
NoResults == [results |-> "none"]
NoDetails == [details |-> "none"]

JobIds == 1..MaxJobs

PENDING == "pending"
PROCESSING == "processing"
COMPLETED == "completed"
FAILED == "failed"
ResearchStatus == {PENDING, PROCESSING, COMPLETED, FAILED}

INPUT_PARSING == "input_parsing"
DATA_GATHERING == "data_gathering"
PROCESSING_STEP == "processing"
RESULT_PERSISTENCE == "result_persistence"
RETURN_RESULTS == "return_results"
WorkflowStep ==
  <<INPUT_PARSING, DATA_GATHERING, PROCESSING_STEP, RESULT_PERSISTENCE, RETURN_RESULTS>>

StepIndex(s) == CHOOSE i \in 1..Len(WorkflowStep) : WorkflowStep[i] = s

\* A topic string, by its shape: `lead` whitespace characters, then `body`
\* characters that begin and end with a non-whitespace character, then
\* `trail` whitespace characters.  A string of whitespace only has body 0
\* and keeps its whitespace in `lead`.
Topic(l, b, t) == [lead |-> l, body |-> b, trail |-> t]
len(topic) == topic.lead + topic.body + topic.trail
strip(topic) == Topic(0, topic.body, 0)

\* The topics clients submit.
Topics ==
  { Topic(1, MinTopicLen, MaxTopicLen - MinTopicLen - 1),
                               \* 500 characters, 3 after strip
    Topic(1, MinTopicLen - 1, 0),  \* " ab": 3 characters, 2 after strip
    Topic(0, MinTopicLen - 1, 0),  \* "ab": below the API's min_length
    Topic(1, MinTopicLen, MaxTopicLen - MinTopicLen) }
                               \* 501 characters, 3 after strip

\* Exception messages, str(e).
MinLengthMsg == "Topic must be at least 3 characters long"
MaxLengthMsg == "Topic must be less than 500 characters"
StoreErrorMsg == "store unavailable"
NoneTopicMsg == "'NoneType' object has no attribute 'topic'"
\* str(e) of what the calls around the aggregator can raise (lines 156-166):
\* httpx and asyncio exceptions are often raised without a message.
ApiErrorMsgs == {"", "Event loop is closed"}
NotFoundMsg == "Research request not found"

Msg(fmt, arg) == [fmt |-> fmt, arg |-> arg]
NoMessage == Msg("", "")

\* An answer of the HTTP API: the endpoint, the id in its path (0 for a
\* submission) and the status code.
Response(op, id, code) == [op |-> op, id |-> id, code |-> code]
NoResponse == Response("none", 0, 0)

\* The progress channel: websockets, the registry's entry for a request id
\* (the key may be absent), messages.
Sockets == 1..MaxSockets
Events == 1..MaxEvents
NoConnections == [present |-> FALSE, set |-> {}]
Message(type, n) == [type |-> type, n |-> n]
IdleBroadcast ==
  [pc |-> "idle", request_id |-> 0, message |-> Message("none", 0), connection |-> 0,
   orig |-> {}, visited |-> {}, detached |-> FALSE, disconnected |-> {}]

\* One gathering: the answers of the two external sources (a failed call,
\* or the pages / stories found) and what was made of them.
NothingFetched ==
  [wiki |-> [ok |-> FALSE, pages |-> <<>>], hn |-> [ok |-> FALSE, stories |-> <<>>]]
\* The ContentProcessor before it is called.
NoKeywords == [done |-> FALSE, value |-> <<>>]
NoSummary == [done |-> FALSE, value |-> ""]

NotGathered ==
  [done |-> FALSE, wikipedia_articles |-> <<>>, hackernews_stories |-> <<>>, result |-> <<>>]

\* ------------------------------------------------------------------- state
VARIABLES
  jobs,        \* research_requests: id -> row, NoRow when there is none
  nextJobId,   \* the next primary key of research_requests
  logs,        \* workflow_logs rows, in creation (started_at) order
  nextLogId,   \* the next primary key of workflow_logs
  articles,    \* articles rows, in creation (extracted_at) order
  nextArticleId,
  api,         \* per id: where the POST /research handler is
  task,        \* per id: the Celery task's position and local variables
  faults,      \* disturbances so far: store calls that raised, deletions
  now,         \* the wall clock
  http,        \* the last answer of a pull or delete endpoint, or of a
               \* submission the API refused
  active_connections,  \* ConnectionManager: request id -> set of websockets
  endpoint,    \* per websocket: where its websocket_endpoint coroutine is
  broadcast,   \* the running broadcast_to_request coroutine and its locals
  inbox,       \* per websocket: the messages sent to it, in order
  nextEvent,   \* the number of the next event to broadcast
  fetched,     \* what the external sources answer to one gathering
  gathered,    \* what the providers and the aggregator made of it
  text,        \* the text handed to the ContentProcessor
  keywords,    \* what extract_keywords made of it
  summary      \* what generate_summary made of it

storevars == <<jobs, nextJobId, logs, nextLogId, articles, nextArticleId>>
wsvars == <<active_connections, endpoint, broadcast, inbox, nextEvent>>
gathervars == <<fetched, gathered>>
textvars == <<text, keywords, summary>>
vars == <<jobs, nextJobId, logs, nextLogId, articles, nextArticleId, api, task, faults, now,
          http, active_connections, endpoint, broadcast, inbox, nextEvent,
          fetched, gathered, text, keywords, summary>>

Exists(j) == jobs[j] # NoRow

IdleTask ==
  [pc |-> "idle", topic |-> Topic(0, 0, 0), workflow_start |-> 0, log |-> 0,
   stage |-> 0, exc |-> NONE, raised |-> 0, articles |-> <<>>, todo |-> <<>>,
   saved |-> 0, total |-> 0, detail |-> NoRow, elapsed |-> 0,
   final |-> NoResults]

Init ==
  /\ jobs = [j \in JobIds |-> NoRow]
  /\ nextJobId = 1
  /\ logs = <<>>
  /\ nextLogId = 1
  /\ articles = <<>>
  /\ nextArticleId = 1
  /\ api = [j \in JobIds |-> "none"]
  /\ task = [j \in JobIds |-> IdleTask]
  /\ faults = 0
  /\ now = 0
  /\ http = NoResponse
  /\ active_connections = [r \in JobIds |-> NoConnections]
  /\ endpoint = [w \in Sockets |-> [pc |-> "new", request_id |-> 0]]
  /\ broadcast = [e \in Events |-> IdleBroadcast]
  /\ inbox = [w \in Sockets |-> <<>>]
  /\ nextEvent = 1
  /\ fetched = NothingFetched
  /\ gathered = NotGathered
  /\ text = ""
  /\ keywords = NoKeywords
  /\ summary = NoSummary

\* ------------------------------------------------------- the record store
\* What a store call can do: succeed, raise before its commit (nothing is
\* written), or raise after it (the row is written, the refresh raises).
WriteOutcomes ==
  {"ok"} \cup (IF faults < MaxFaults THEN {"raise_before", "raise_after"} ELSE {})
ReadOutcomes ==
  {"ok"} \cup (IF faults < MaxFaults THEN {"raise"} ELSE {})
\* An insert of a row that references request j.  When request j is gone,
\* a store that enforces the foreign key (models/research.py, lines 57 and
\* 77) refuses the row; a store that does not enforce it writes the row.
InsertOutcomes(j) == WriteOutcomes \cup (IF Exists(j) THEN {} ELSE {"raise_fk"})
Written(o) == o \in {"ok", "raise_after"}
Count(o) == IF o \in {"ok", "raise_fk"} THEN faults ELSE faults + 1

\* ResearchService.create_research_request: the new row.
new_research_request(topic) ==
  [topic |-> topic, status |-> PENDING, task_id |-> 0, completed_at |-> -1,
   results |-> NoResults, error_message |-> NONE]

\* ResearchService.update_status, on the row it found.
update_status_row(row, status, results, error_message) ==
  [row EXCEPT
     !.status = status,
     !.results = IF results # NoResults THEN results ELSE @,
     !.error_message = IF error_message \notin {NONE, ""} THEN error_message ELSE @,
     !.completed_at = IF status = COMPLETED THEN now ELSE @]

\* ResearchService.update_status: no row, no change (returns None).
update_status(j, status, results, error_message) ==
  IF Exists(j)
    THEN [jobs EXCEPT ![j] = update_status_row(@, status, results, error_message)]
    ELSE jobs

\* ResearchService.create_workflow_log: the new row.
new_workflow_log(id, j, step, status, message) ==
  [id |-> id, research_request_id |-> j, step |-> step, status |-> status,
   message |-> message, details |-> NoDetails, created_as |-> status]

create_workflow_log(j, step, status, message) ==
  Append(logs, new_workflow_log(nextLogId, j, step, status, message))

\* ResearchService.get_workflow_logs: the request's rows, ORDER BY
\* started_at, the order in which they were created.
get_workflow_logs(j) == SelectSeq(logs, LAMBDA l : l.research_request_id = j)

\* ResearchRequest.logs, which get_research_request_detail hands to the
\* response model: the relationship is declared without order_by, so the
\* rows are loaded by a SELECT without ORDER BY and the store may return
\* them in any order.  The set of the answers it can give.
ResearchRequest_logs(j) ==
  LET rows == SelectSeq(logs, LAMBDA l : l.research_request_id = j)
      orders == {p \in [DOMAIN rows -> DOMAIN rows] : \A a, b \in DOMAIN rows : p[a] = p[b] => a = b}
  IN {[i \in DOMAIN rows |-> rows[p[i]]] : p \in orders}

\* update_workflow_log without its assignment of log.status.
update_workflow_log_row_keeps_status(log, status, message, details) ==
  [log EXCEPT
     !.message = IF message # NoMessage THEN message ELSE @,
     !.details = IF details # NoDetails THEN details ELSE @]

\* ResearchService.update_workflow_log, on the row it found.
update_workflow_log_row(log, status, message, details) ==
  [log EXCEPT
     !.status = status,
     !.message = IF message # NoMessage THEN message ELSE @,
     !.details = IF details # NoDetails THEN details ELSE @]

\* ResearchService.update_workflow_log: no row with that id, no change.
update_workflow_log(log_id, status, message, details) ==
  [i \in DOMAIN logs |->
     IF logs[i].id = log_id
       THEN update_workflow_log_row(logs[i], status, message, details)
       ELSE logs[i]]

\* ResearchService.create_article: the new row.
new_article(id, j, data) ==
  [id |-> id, research_request_id |-> j, title |-> data.title,
   source |-> data.source, relevance_score |-> data.relevance_score]

\* create_article putting the new row in the place of the request's rows.
create_article_replacing(j, data) ==
  Append(SelectSeq(articles, LAMBDA a : a.research_request_id # j),
         new_article(nextArticleId, j, data))

create_article(j, data) == Append(articles, new_article(nextArticleId, j, data))

\* ResearchService.get_articles: the request's rows by relevance_score
\* descending, then by extracted_at, at most `limit` of them.
RECURSIVE InsertDesc(_, _)
InsertDesc(sorted, x) ==
  IF sorted = <<>> THEN <<x>>
  ELSE IF Head(sorted).relevance_score >= x.relevance_score
    THEN <<Head(sorted)>> \o InsertDesc(Tail(sorted), x)
    ELSE <<x>> \o sorted

RECURSIVE SortDesc(_)
\* Stable sort by relevance_score, highest first (list.sort(reverse=True)
\* keeps equal keys in their original order, as ORDER BY ..., extracted_at).
SortDesc(s) ==
  IF s = <<>> THEN <<>>
  ELSE InsertDesc(SortDesc(SubSeq(s, 1, Len(s) - 1)), s[Len(s)])

Take(s, n) == SubSeq(s, 1, IF Len(s) < n THEN Len(s) ELSE n)

\* get_articles without its filter on research_request_id.
get_articles_of_any_request(j, limit) ==
  Take(SortDesc(articles), limit)

get_articles(j, limit) ==
  Take(SortDesc(SelectSeq(articles, LAMBDA a : a.research_request_id = j)), limit)

\* ---------------------------------------------------------- the aggregator
WikiItem(i) ==
  [title |-> <<"wikipedia", i>>, source |-> "wikipedia", relevance_score |-> WikipediaScore]
HNItem(i) ==
  [title |-> <<"hackernews", i>>, source |-> "hackernews", relevance_score |-> MaxScore]

\* What the two providers hand to the aggregator in one run.
WikiResults == {[i \in 1..n |-> WikiItem(i)] : n \in 0..MaxWikiItems}
HNResults == {[i \in 1..n |-> HNItem(i)] : n \in 0..MaxHNItems}

\* What asyncio.gather(.., return_exceptions=True) hands back for one
\* provider: its list of items, or the exception it raised.
ProviderError == [ok |-> FALSE, items |-> <<>>]
WikiOutcomes == {[ok |-> TRUE, items |-> r] : r \in WikiResults} \cup {ProviderError}
HNOutcomes == {[ok |-> TRUE, items |-> r] : r \in HNResults} \cup {ProviderError}

\* Lines 258-264: an exception counts as no items.
ItemsOf(outcome) == IF outcome.ok THEN outcome.items ELSE <<>>

\* gather_research_data merging the news items before the encyclopedia's.
gather_research_data_news_first(wikipedia_articles, hackernews_stories) ==
  Take(SortDesc(ItemsOf(hackernews_stories) \o ItemsOf(wikipedia_articles)), TopN)

\* ExternalAPIService.gather_research_data: merge, rank, keep the top 5.
gather_research_data(wikipedia_articles, hackernews_stories) ==
  Take(SortDesc(ItemsOf(wikipedia_articles) \o ItemsOf(hackernews_stories)), TopN)

\* The answers of the encyclopedia: the search fails (status, timeout, no
\* JSON), or it lists pages, for each of which _get_article_details gives
\* an article or None.
PageDetails == {"article", "none"}
WikiResponses ==
  {[ok |-> FALSE, pages |-> <<>>]} \cup
  {[ok |-> TRUE, pages |-> p] : p \in UNION {[1..n -> PageDetails] : n \in 0..MaxPages}}

\* WikipediaService.search_articles: the articles of the first five pages
\* listed; `limit` goes to the source as a query parameter and is not
\* applied to its answer.  A failed search gives [].
search_articles(response, limit) ==
  IF ~response.ok THEN <<>>
  ELSE LET top == Take(response.pages, WikiPageLimit)
           found == SelectSeq([i \in DOMAIN top |-> [i |-> i, details |-> top[i]]],
                              LAMBDA page : page.details = "article")
       IN [k \in DOMAIN found |-> WikiItem(found[k].i)]

\* The answers of the news source: the call for the top stories fails, or
\* it lists stories; a story has a score or none, and it is kept when it
\* is a story, not deleted, and the topic occurs in it.
StoryScores ==
  {[present |-> FALSE, value |-> 0]} \cup {[present |-> TRUE, value |-> v] : v \in {-1, WikipediaScore, 150}}
Stories == [score : StoryScores, kept : BOOLEAN]
HNResponses ==
  {[ok |-> FALSE, stories |-> <<>>]} \cup
  {[ok |-> TRUE, stories |-> st] : st \in UNION {[1..n -> Stories] : n \in 0..MaxStories}}

\* HackerNewsService._get_story_details, the relevance:
\* min(story_data.get("score", 0), 100).
story_relevance_score(score) ==
  LET v == IF score.present THEN score.value ELSE 0
  IN IF v < MaxScore THEN v ELSE MaxScore

_get_story_details(i, story) ==
  [title |-> <<"hackernews", i>>, source |-> "hackernews",
   relevance_score |-> story_relevance_score(story.score)]

\* HackerNewsService.search_stories: of the first 50 stories the kept ones,
\* at most `limit`.  A failed call gives [].
search_stories(response, limit) ==
  IF ~response.ok THEN <<>>
  ELSE LET checked == Take(response.stories, HNChecked)
           relevant_stories ==
             SelectSeq([i \in DOMAIN checked |-> [i |-> i, story |-> checked[i]]],
                       LAMBDA st : st.story.kept)
       IN Take([k \in DOMAIN relevant_stories |->
                  _get_story_details(relevant_stories[k].i, relevant_stories[k].story)],
               limit)

\* A gathering in which the failure of one source leaves nothing of the
\* other's items.
gather_all_or_nothing ==
  /\ ~gathered.done
  /\ LET wikipedia_articles == search_articles(fetched.wiki, WikiLimit)
         hackernews_stories == search_stories(fetched.hn, HNLimit)
     IN gathered' =
          [done |-> TRUE,
           wikipedia_articles |-> wikipedia_articles,
           hackernews_stories |-> hackernews_stories,
           result |-> IF fetched.wiki.ok /\ fetched.hn.ok
                        THEN gather_research_data([ok |-> TRUE, items |-> wikipedia_articles],
                                                  [ok |-> TRUE, items |-> hackernews_stories])
                        ELSE <<>>]
  /\ UNCHANGED <<storevars, api, task, faults, now, http, wsvars, fetched, textvars>>

\* One call of gather_research_data with the answers of the sources.
gather ==
  /\ ~gathered.done
  /\ LET wikipedia_articles == search_articles(fetched.wiki, WikiLimit)
         hackernews_stories == search_stories(fetched.hn, HNLimit)
     IN gathered' =
          [done |-> TRUE,
           wikipedia_articles |-> wikipedia_articles,
           hackernews_stories |-> hackernews_stories,
           result |-> gather_research_data([ok |-> TRUE, items |-> wikipedia_articles],
                                           [ok |-> TRUE, items |-> hackernews_stories])]
  /\ UNCHANGED <<storevars, api, task, faults, now, http, wsvars, fetched, textvars>>

\* ------------------------------------------------------------ the HTTP API
\* ResearchRequestCreate: Field(min_length=3, max_length=500), on the
\* string as submitted.
ResearchRequestCreate(topic) == len(topic) >= MinTopicLen /\ len(topic) <= MaxTopicLen

\* POST /research, up to the task's start: validate, insert the row,
\* start_research_workflow.delay(id).
create_research_request(topic) ==
  /\ nextJobId <= MaxJobs
  /\ ResearchRequestCreate(topic)
  /\ jobs' = [jobs EXCEPT ![nextJobId] = new_research_request(topic)]
  /\ nextJobId' = nextJobId + 1
  /\ api' = [api EXCEPT ![nextJobId] = "delayed"]
  /\ task' = [task EXCEPT ![nextJobId].pc = "queued"]
  /\ UNCHANGED <<logs, nextLogId, articles, nextArticleId, faults, now>>
  /\ UNCHANGED <<http, wsvars, gathervars, textvars>>

\* POST /research, after delay(): ResearchService.update_task_id and the
\* response.
update_task_id(j) ==
  /\ api[j] = "delayed"
  /\ jobs' = IF Exists(j) THEN [jobs EXCEPT ![j].task_id = j] ELSE jobs
  /\ api' = [api EXCEPT ![j] = "responded"]
  /\ UNCHANGED <<nextJobId, logs, nextLogId, articles, nextArticleId, task, faults, now>>
  /\ UNCHANGED <<http, wsvars, gathervars, textvars>>

\* DELETE /research/{id} on a request that exists: the row goes, and with it
\* (cascade="all, delete-orphan") its logs and articles.
delete_research_request(j) ==
  /\ Exists(j)
  /\ faults < MaxFaults
  /\ faults' = faults + 1
  /\ jobs' = [jobs EXCEPT ![j] = NoRow]
  /\ logs' = SelectSeq(logs, LAMBDA l : l.research_request_id # j)
  /\ articles' = SelectSeq(articles, LAMBDA a : a.research_request_id # j)
  /\ http' = Response("delete", j, 200)
  /\ UNCHANGED <<nextJobId, nextLogId, nextArticleId, api, task, now>>
  /\ UNCHANGED <<wsvars, gathervars, textvars>>

\* The task's next step reads the clock: workflow_start (line 43), the
\* elapsed time (line 334), completed_at (update_status).
ReadsClock(t) ==
  \/ t.pc \in {"set_processing", "set_completed"}
  \/ t.pc = "work" /\ t.stage = Len(WorkflowStep)

\* The wall clock advances.  Nothing but these reads observes it, so it is
\* advanced only when a task is about to read it.
Tick ==
  /\ now < MaxTime
  /\ \E j \in JobIds : ReadsClock(task[j])
  /\ now' = now + 1
  /\ UNCHANGED <<jobs, nextJobId, logs, nextLogId, articles, nextArticleId, api, task, faults>>
  /\ UNCHANGED <<http, wsvars, gathervars, textvars>>

\* ------------------------------------------------- start_research_workflow
Active(j) == task[j].pc \notin {"idle", "queued", "done"}

\* An exception leaves the try block of start_research_workflow: control
\* goes to its except clause.  `by` is the stage that raised, 6 when the
\* exception came from the task's own calls.
Raise(t, msg, by) == [IdleTask EXCEPT !.exc = msg, !.raised = by, !.pc = "h_log"]

\* The task returns or raises: its locals are gone; what is kept is the
\* exception it ended with (NONE when it returned).
Done(t) == [IdleTask EXCEPT !.exc = t.exc, !.raised = t.raised, !.pc = "done"]

\* An exception inside a stage's try block: control goes to the stage's
\* except clause.
StageRaise(t, msg) == [t EXCEPT !.exc = msg, !.raised = t.stage, !.pc = "except"]

\* A task that runs the stage it has just finished again.
AfterStage_again(t) == [t EXCEPT !.pc = "create"]

\* The stage that follows stage k, or the task's final update.
AfterStage(t) ==
  IF t.stage < Len(WorkflowStep)
    THEN [t EXCEPT !.stage = t.stage + 1, !.pc = "create"]
    ELSE [t EXCEPT !.pc = "set_completed"]

\* Lines 28-37: a worker picks the task up, opens a session and reads the
\* request.
pickup(j) ==
  /\ task[j].pc = "queued"
  /\ Cardinality({k \in JobIds : Active(k)}) < MaxActive
  /\ \E o \in ReadOutcomes :
       /\ faults' = Count(o)
       /\ task' = [task EXCEPT ![j] =
            IF o # "ok" THEN Raise(@, StoreErrorMsg, 6)
            ELSE IF ~Exists(j) THEN Raise(@, NotFoundMsg, 6)
            ELSE [@ EXCEPT !.topic = jobs[j].topic, !.pc = "set_processing"]]
  /\ UNCHANGED <<jobs, nextJobId, logs, nextLogId, articles, nextArticleId, api, now>>
  /\ UNCHANGED <<http, wsvars, gathervars, textvars>>

\* Lines 39-43: update_status(PROCESSING), then workflow_start.
set_processing(j) ==
  /\ task[j].pc = "set_processing"
  /\ \E o \in WriteOutcomes :
       /\ faults' = Count(o)
       /\ jobs' = IF o = "raise_before" THEN jobs
                  ELSE update_status(j, PROCESSING, NoResults, NONE)
       /\ task' = [task EXCEPT ![j] =
            IF o # "ok" THEN Raise(@, StoreErrorMsg, 6)
            ELSE [@ EXCEPT !.workflow_start = now, !.stage = 1, !.pc = "create"]]
  /\ UNCHANGED <<nextJobId, logs, nextLogId, articles, nextArticleId, api, now>>
  /\ UNCHANGED <<http, wsvars, gathervars, textvars>>

StartedMessage(k) ==
  CASE k = 1 -> Msg("Validating and parsing input topic", "")
    [] k = 2 -> Msg("Fetching articles from external APIs", "")
    [] k = 3 -> Msg("Processing articles and extracting insights", "")
    [] k = 4 -> Msg("Saving processed results to database", "")
    [] k = 5 -> Msg("Preparing final structured results", "")

FailedMessage(k, e) ==
  CASE k = 1 -> Msg("Input validation failed: {}", e)
    [] k = 2 -> Msg("Data gathering failed: {}", e)
    [] k = 3 -> Msg("Processing failed: {}", e)
    [] k = 4 -> Msg("Result persistence failed: {}", e)
    [] k = 5 -> Msg("Return results failed: {}", e)

\* The head of every stage function: create_workflow_log(.., "started", ..),
\* before the try block, so that what it raises goes straight to the task.
stage_create_log(j, k) ==
  /\ task[j].pc = "create"
  /\ task[j].stage = k
  /\ \E o \in InsertOutcomes(j) :
       /\ faults' = Count(o)
       /\ logs' = IF ~Written(o) THEN logs
                  ELSE create_workflow_log(j, WorkflowStep[k], "started", StartedMessage(k))
       /\ nextLogId' = IF ~Written(o) THEN nextLogId ELSE nextLogId + 1
       /\ task' = [task EXCEPT ![j] =
            IF o # "ok" THEN Raise(@, StoreErrorMsg, k)
            ELSE [@ EXCEPT !.log = nextLogId, !.pc = "work"]]
  /\ UNCHANGED <<jobs, nextJobId, articles, nextArticleId, api, now>>
  /\ UNCHANGED <<http, wsvars, gathervars, textvars>>

\* The except clause of every stage function: update_workflow_log(log.id,
\* "failed", ..) and re-raise; if the update raises, that exception leaves
\* the stage instead.
stage_except(j, k) ==
  /\ task[j].pc = "except"
  /\ task[j].stage = k
  /\ \E o \in WriteOutcomes :
       /\ faults' = Count(o)
       /\ logs' = IF o = "raise_before" THEN logs
                  ELSE update_workflow_log(task[j].log, "failed",
                                           FailedMessage(k, task[j].exc), NoDetails)
       /\ task' = [task EXCEPT ![j] =
            Raise(@, IF o = "ok" THEN @.exc ELSE StoreErrorMsg, k)]
  /\ UNCHANGED <<jobs, nextJobId, nextLogId, articles, nextArticleId, api, now>>
  /\ UNCHANGED <<http, wsvars, gathervars, textvars>>

\* The tail of a stage's try block: update_workflow_log(log.id, "completed",
\* message, details) and return `next`.
stage_complete(j, message, details, next) ==
  \E o \in WriteOutcomes :
    /\ faults' = Count(o)
    /\ logs' = IF o = "raise_before" THEN logs
               ELSE update_workflow_log(task[j].log, "completed", message, details)
    /\ task' = [task EXCEPT ![j] =
         IF o = "ok" THEN AfterStage(next) ELSE StageRaise(@, StoreErrorMsg)]

\* ---------------------------------------------------- the five stages
\* The validation of execute_input_parsing without its topic.strip().
validate_topic_unstripped(topic) ==
  IF len(topic) = 0 \/ len(topic) < MinTopicLen THEN MinLengthMsg
  ELSE IF len(topic) > MaxTopicLen THEN MaxLengthMsg
  ELSE NONE

\* execute_input_parsing, lines 106-111: the message of the ValueError the
\* validation raises, NONE when it passes.
validate_topic(topic) ==
  IF len(topic) = 0 \/ len(strip(topic)) < MinTopicLen THEN MinLengthMsg
  ELSE IF len(topic) > MaxTopicLen THEN MaxLengthMsg
  ELSE NONE

\* execute_input_parsing, lines 113-121.
parse_result(topic) ==
  [original_topic |-> topic, cleaned_topic |-> strip(topic),
   topic_length |-> len(strip(topic)), validation_passed |-> TRUE]

execute_input_parsing(j) ==
  \/ stage_create_log(j, 1)
  \/ /\ task[j].pc = "work"
     /\ task[j].stage = 1
     /\ IF validate_topic(task[j].topic) # NONE
          THEN /\ task' = [task EXCEPT ![j] = StageRaise(@, validate_topic(@.topic))]
               /\ UNCHANGED <<logs, faults>>
          ELSE stage_complete(j, Msg("Input validation completed successfully", ""),
                              parse_result(task[j].topic), task[j])
     /\ UNCHANGED <<jobs, nextJobId, nextLogId, articles, nextArticleId, api, now>>
     /\ UNCHANGED <<http, wsvars, gathervars, textvars>>
  \/ stage_except(j, 1)

Sources(items) == {items[i].source : i \in DOMAIN items}

execute_data_gathering(j) ==
  \/ stage_create_log(j, 2)
  \/ /\ task[j].pc = "work"
     /\ task[j].stage = 2
     /\ \/ \E e \in ApiErrorMsgs :
             \* ExternalAPIService(), the event loop or close() raises
             /\ task' = [task EXCEPT ![j] = StageRaise(@, e)]
             /\ UNCHANGED <<logs, faults>>
        \/ \E w \in WikiOutcomes, h \in HNOutcomes :
             LET found == gather_research_data(w, h) IN
               stage_complete(j, Msg("Successfully gathered {} articles", ToString(Len(found))),
                              [articles_count |-> Len(found), sources |-> Sources(found)],
                              [task[j] EXCEPT !.articles = found])
     /\ UNCHANGED <<jobs, nextJobId, nextLogId, articles, nextArticleId, api, now>>
     /\ UNCHANGED <<http, wsvars, gathervars, textvars>>
  \/ stage_except(j, 2)

execute_processing(j) ==
  \/ stage_create_log(j, 3)
  \/ /\ task[j].pc = "work"
     /\ task[j].stage = 3
     /\ LET top_articles == Take(task[j].articles, TopN) IN
          stage_complete(j, Msg("Processing completed: {} articles processed",
                                ToString(Len(top_articles))),
                         [sources |-> Sources(top_articles)],
                         [task[j] EXCEPT !.todo = top_articles,
                                         !.total = Len(task[j].articles)])
     /\ UNCHANGED <<jobs, nextJobId, nextLogId, articles, nextArticleId, api, now>>
     /\ UNCHANGED <<http, wsvars, gathervars, textvars>>
  \/ stage_except(j, 3)

execute_result_persistence(j) ==
  \/ stage_create_log(j, 4)
  \/ \* one turn of the loop over top_articles: create_article
     /\ task[j].pc = "work"
     /\ task[j].stage = 4
     /\ task[j].todo # <<>>
     /\ \E o \in InsertOutcomes(j) :
          /\ faults' = Count(o)
          /\ articles' = IF ~Written(o) THEN articles
                         ELSE create_article(j, Head(task[j].todo))
          /\ nextArticleId' = IF ~Written(o) THEN nextArticleId
                              ELSE nextArticleId + 1
          /\ task' = [task EXCEPT ![j] =
               IF o = "ok" THEN [@ EXCEPT !.todo = Tail(@), !.saved = @ + 1]
               ELSE StageRaise(@, StoreErrorMsg)]
     /\ UNCHANGED <<jobs, nextJobId, logs, nextLogId, api, now>>
     /\ UNCHANGED <<http, wsvars, gathervars, textvars>>
  \/ /\ task[j].pc = "work"
     /\ task[j].stage = 4
     /\ task[j].todo = <<>>
     /\ stage_complete(j, Msg("Results persisted: {} articles saved", ToString(task[j].saved)),
                       [articles_saved |-> task[j].saved,
                        total_articles_found |-> task[j].total],
                       task[j])
     /\ UNCHANGED <<jobs, nextJobId, nextLogId, articles, nextArticleId, api, now>>
     /\ UNCHANGED <<http, wsvars, gathervars, textvars>>
  \/ stage_except(j, 4)

\* The payload with the size of the selection in place of the count that
\* result_persistence handed on.
final_results_counts_limit(topic, top, total, processing_time_ms) ==
  [topic |-> topic, top_articles |-> top, total_articles_found |-> TopN,
   processing_time_ms |-> processing_time_ms]

\* execute_return_results, lines 340-360.
final_results(topic, top, total, processing_time_ms) ==
  [topic |-> topic, top_articles |-> top, total_articles_found |-> total,
   processing_time_ms |-> processing_time_ms]

\* Line 334.
processing_time(start) == (now - start) * 1000

execute_return_results(j) ==
  \/ stage_create_log(j, 5)
  \/ \* lines 331-334: get_research_request_detail, then the elapsed time
     /\ task[j].pc = "work"
     /\ task[j].stage = 5
     /\ \E o \in ReadOutcomes :
          /\ faults' = Count(o)
          /\ task' = [task EXCEPT ![j] =
               IF o # "ok" THEN StageRaise(@, StoreErrorMsg)
               ELSE [@ EXCEPT !.detail = jobs[j],
                              !.elapsed = processing_time(task[j].workflow_start),
                              !.pc = "articles"]]
     /\ UNCHANGED <<jobs, nextJobId, logs, nextLogId, articles, nextArticleId, api, now>>
     /\ UNCHANGED <<http, wsvars, gathervars, textvars>>
  \/ \* lines 337-360: get_articles, then the payload (research_request.topic
     \* raises when the detail read found no row)
     /\ task[j].pc = "articles"
     /\ \E o \in ReadOutcomes :
          /\ faults' = Count(o)
          /\ task' = [task EXCEPT ![j] =
               IF o # "ok" THEN StageRaise(@, StoreErrorMsg)
               ELSE IF @.detail = NoRow THEN StageRaise(@, NoneTopicMsg)
               ELSE [@ EXCEPT !.final = final_results(task[j].detail.topic, get_articles(j, TopN),
                                                      task[j].total, task[j].elapsed),
                              !.pc = "update"]]
     /\ UNCHANGED <<jobs, nextJobId, logs, nextLogId, articles, nextArticleId, api, now>>
     /\ UNCHANGED <<http, wsvars, gathervars, textvars>>
  \/ /\ task[j].pc = "update"
     /\ stage_complete(j, Msg("Research workflow completed successfully", ""),
                       [processing_time_ms |-> task[j].elapsed,
                        articles_returned |-> Len(task[j].final.top_articles)],
                       task[j])
     /\ UNCHANGED <<jobs, nextJobId, nextLogId, articles, nextArticleId, api, now>>
     /\ UNCHANGED <<http, wsvars, gathervars, textvars>>
  \/ stage_except(j, 5)

\* Lines 60-68: update_status(COMPLETED, results=final_results), return.
set_completed(j) ==
  /\ task[j].pc = "set_completed"
  /\ \E o \in WriteOutcomes :
       /\ faults' = Count(o)
       /\ jobs' = IF o = "raise_before" THEN jobs
                  ELSE update_status(j, COMPLETED, task[j].final, NONE)
       /\ task' = [task EXCEPT ![j] =
            IF o = "ok" THEN Done(@) ELSE Raise(@, StoreErrorMsg, 6)]
  /\ UNCHANGED <<nextJobId, logs, nextLogId, articles, nextArticleId, api, now>>
  /\ UNCHANGED <<http, wsvars, gathervars, textvars>>

\* Lines 70-79, the except clause: the failure entry, always under
\* RETURN_RESULTS.  If the call raises, the exception leaves the task.
handler_log(j) ==
  /\ task[j].pc = "h_log"
  /\ \E o \in InsertOutcomes(j) :
       /\ faults' = Count(o)
       /\ logs' = IF ~Written(o) THEN logs
                  ELSE create_workflow_log(j, RETURN_RESULTS, "failed",
                                           Msg("Workflow failed: {}", task[j].exc))
       /\ nextLogId' = IF ~Written(o) THEN nextLogId ELSE nextLogId + 1
       /\ task' = [task EXCEPT ![j] = IF o = "ok" THEN [@ EXCEPT !.pc = "h_status"] ELSE Done(@)]
  /\ UNCHANGED <<jobs, nextJobId, articles, nextArticleId, api, now>>
  /\ UNCHANGED <<http, wsvars, gathervars, textvars>>

\* Lines 81-88: update_status(FAILED, error_message=str(e)), raise.
handler_status(j) ==
  /\ task[j].pc = "h_status"
  /\ \E o \in WriteOutcomes :
       /\ faults' = Count(o)
       /\ jobs' = IF o = "raise_before" THEN jobs
                  ELSE update_status(j, FAILED, NoResults, task[j].exc)
       /\ task' = [task EXCEPT ![j] = Done(@)]
  /\ UNCHANGED <<nextJobId, logs, nextLogId, articles, nextArticleId, api, now>>
  /\ UNCHANGED <<http, wsvars, gathervars, textvars>>

start_research_workflow(j) ==
  \/ pickup(j)
  \/ set_processing(j)
  \/ execute_input_parsing(j)
  \/ execute_data_gathering(j)
  \/ execute_processing(j)
  \/ execute_result_persistence(j)
  \/ execute_return_results(j)
  \/ set_completed(j)
  \/ handler_log(j)
  \/ handler_status(j)

Next ==
  \/ \E t \in Topics : create_research_request(t)
  \/ \E j \in JobIds : update_task_id(j)
  \/ \E j \in JobIds : delete_research_request(j)
  \/ \E j \in JobIds : start_research_workflow(j)
  \/ Tick

Spec == Init /\ [][Next]_vars

\* --------------------------------------------- the worker left undisturbed
\* Every store call succeeds and nothing is deleted: the budget of
\* disturbances is spent from the start.  A worker process runs the task it
\* has picked up to its end, and picks up a queued task when it is free.
InitLive ==
  /\ jobs = [j \in JobIds |-> NoRow]
  /\ nextJobId = 1
  /\ logs = <<>>
  /\ nextLogId = 1
  /\ articles = <<>>
  /\ nextArticleId = 1
  /\ api = [j \in JobIds |-> "none"]
  /\ task = [j \in JobIds |-> IdleTask]
  /\ faults = MaxFaults
  /\ now = 0
  /\ http = NoResponse
  /\ active_connections = [r \in JobIds |-> NoConnections]
  /\ endpoint = [w \in Sockets |-> [pc |-> "new", request_id |-> 0]]
  /\ broadcast = [e \in Events |-> IdleBroadcast]
  /\ inbox = [w \in Sockets |-> <<>>]
  /\ nextEvent = 1
  /\ fetched = NothingFetched
  /\ gathered = NotGathered
  /\ text = ""
  /\ keywords = NoKeywords
  /\ summary = NoSummary

NextLive ==
  \/ \E t \in Topics : create_research_request(t)
  \/ \E j \in JobIds : update_task_id(j)
  \/ \E j \in JobIds : start_research_workflow(j)
  \/ Tick

SpecLive ==
  /\ InitLive
  /\ [][NextLive]_vars
  /\ \A j \in JobIds : WF_vars(start_research_workflow(j))

\* ------------------------------------------- the answers of the HTTP API
\* POST /research with a topic the schema refuses: FastAPI answers 422
\* before the handler's body runs.
create_research_request_refused(topic) ==
  /\ ~ResearchRequestCreate(topic)
  /\ http' = Response("create", 0, 422)
  /\ UNCHANGED <<storevars, api, task, faults, now, wsvars, gathervars, textvars>>

\* GET /research/{id}: get_research_request_detail, 404 when it returns
\* None, 500 when it raises.
get_research_request(j) ==
  /\ \E o \in ReadOutcomes :
       /\ faults' = Count(o)
       /\ http' = Response("get", j, IF o # "ok" THEN 500
                                     ELSE IF Exists(j) THEN 200 ELSE 404)
  /\ UNCHANGED <<storevars, api, task, now, wsvars, gathervars, textvars>>

\* GET /research/{id}/logs without its check that the request exists.
get_research_logs_unchecked(j) ==
  /\ \E o \in ReadOutcomes :
       /\ faults' = Count(o)
       /\ http' = Response("logs", j, IF o # "ok" THEN 500 ELSE 200)
  /\ UNCHANGED <<storevars, api, task, now, wsvars, gathervars, textvars>>

\* GET /research/{id}/logs: get_research_request, 404 when it returns None,
\* then get_workflow_logs.
get_research_logs(j) ==
  /\ \E o \in ReadOutcomes :
       /\ faults' = Count(o)
       /\ http' = Response("logs", j, IF o # "ok" THEN 500
                                      ELSE IF Exists(j) THEN 200 ELSE 404)
  /\ UNCHANGED <<storevars, api, task, now, wsvars, gathervars, textvars>>

\* DELETE /research/{id} when get_research_request returns None (404) or
\* raises (500): nothing is deleted.
delete_research_request_not_found(j) ==
  /\ \E o \in ReadOutcomes :
       /\ faults' = Count(o)
       /\ o = "ok" => ~Exists(j)
       /\ http' = Response("delete", j, IF o # "ok" THEN 500 ELSE 404)
  /\ UNCHANGED <<storevars, api, task, now, wsvars, gathervars, textvars>>

\* The store when the API is observed: the ids below the last were used by
\* requests that were submitted and deleted before their tasks started, so
\* that their tasks found no row and ended.
InitApi ==
  /\ jobs = [j \in JobIds |-> NoRow]
  /\ nextJobId = MaxJobs
  /\ logs = <<>>
  /\ nextLogId = 1
  /\ articles = <<>>
  /\ nextArticleId = 1
  /\ api = [j \in JobIds |-> IF j < MaxJobs THEN "responded" ELSE "none"]
  /\ task = [j \in JobIds |->
               IF j < MaxJobs THEN Done(Raise(IdleTask, NotFoundMsg, 6)) ELSE IdleTask]
  /\ faults = 0
  /\ now = 0
  /\ http = NoResponse
  /\ active_connections = [r \in JobIds |-> NoConnections]
  /\ endpoint = [w \in Sockets |-> [pc |-> "new", request_id |-> 0]]
  /\ broadcast = [e \in Events |-> IdleBroadcast]
  /\ inbox = [w \in Sockets |-> <<>>]
  /\ nextEvent = 1
  /\ fetched = NothingFetched
  /\ gathered = NotGathered
  /\ text = ""
  /\ keywords = NoKeywords
  /\ summary = NoSummary

NextApi ==
  \/ Next
  \/ \E t \in Topics : create_research_request_refused(t)
  \/ \E j \in JobIds : get_research_request(j)
  \/ \E j \in JobIds : get_research_logs(j)
  \/ \E j \in JobIds : delete_research_request_not_found(j)

SpecApi == InitApi /\ [][NextApi]_vars

\* ------------------------------------------------ the progress channel
\* The websocket endpoint and the ConnectionManager run in the event loop of
\* one server process: a step below is the code between two awaits.  The
\* registry is not tied to the record store: the endpoint never looks the
\* request up.

Registered(r) == active_connections[r].set

\* The keep-alive messages: the channel's probe and its answer to a
\* client's probe.
Ping == Message("ping", 0)
Pong == Message("pong", 0)

\* The keep-alive messages delivered so far.
Probes(w) == Len(SelectSeq(inbox[w], LAMBDA m : m \in {Ping, Pong}))

RECURSIVE Sum(_, _)
Sum(f, S) == IF S = {} THEN 0 ELSE LET x == CHOOSE x \in S : TRUE IN f[x] + Sum(f, S \ {x})

\* The websockets that have connected, the events broadcast and the
\* keep-alive messages delivered so far.
Load ==
  Cardinality({w \in Sockets : endpoint[w].pc # "new"}) + (nextEvent - 1)
    + Sum([w \in Sockets |-> Probes(w)], Sockets)

\* ConnectionManager.connect
connect(reg, w, r) == [reg EXCEPT ![r] = [present |-> TRUE, set |-> @.set \cup {w}]]

\* ConnectionManager.disconnect: discard, and delete the key of a set that
\* became empty.
disconnect(reg, w, r) ==
  IF ~reg[r].present THEN reg
  ELSE IF reg[r].set \ {w} = {} THEN [reg EXCEPT ![r] = NoConnections]
  ELSE [reg EXCEPT ![r].set = @ \ {w}]

\* websocket.send_text: delivered to a peer that is there; for a peer that
\* is gone it raises, or the transport takes the message and drops it.
SendOutcomes(w) == IF endpoint[w].pc = "open" THEN {"sent"} ELSE {"raised", "dropped"}

\* A send that reaches every connected websocket, whatever it is
\* registered for.
Deliver_to_all(box, w, message, o) ==
  IF o = "sent"
    THEN [v \in Sockets |-> IF endpoint[v].pc = "open" THEN Append(box[v], message) ELSE box[v]]
    ELSE box

Deliver(box, w, message, o) ==
  IF o = "sent" THEN [box EXCEPT ![w] = Append(@, message)] ELSE box

\* A websocket_endpoint that, after the connection message, sends the new
\* subscriber the events already broadcast for its request.
websocket_endpoint_replaying(w, r) ==
  /\ endpoint[w].pc = "new"
  /\ Load < MaxLoad
  /\ active_connections' = connect(active_connections, w, r)
  /\ endpoint' = [endpoint EXCEPT ![w] = [pc |-> "open", request_id |-> r]]
  /\ inbox' = [inbox EXCEPT ![w] =
                 <<Message("connection", r)>> \o
                 SelectSeq([e \in Events |-> broadcast[e].message],
                           LAMBDA m : \E e \in Events :
                                        /\ broadcast[e].message = m
                                        /\ broadcast[e].request_id = r
                                        /\ broadcast[e].pc \in {"returned", "raised"})]
  /\ UNCHANGED <<broadcast, nextEvent>>
  /\ UNCHANGED <<storevars, api, task, faults, now, http, gathervars, textvars>>

\* A websocket_endpoint that registers the websocket and leaves the
\* connection message out.
websocket_endpoint_unacknowledged(w, r) ==
  /\ endpoint[w].pc = "new"
  /\ Load < MaxLoad
  /\ active_connections' = connect(active_connections, w, r)
  /\ \E peer \in {"open", "lost"} :
       endpoint' = [endpoint EXCEPT ![w] = [pc |-> peer, request_id |-> r]]
  /\ UNCHANGED <<broadcast, inbox, nextEvent>>
  /\ UNCHANGED <<storevars, api, task, faults, now, http, gathervars, textvars>>

\* websocket_endpoint up to its receive loop: accept, register, send the
\* connection message (send_personal_message swallows a failed send).  The
\* peer may be gone before the message is sent.
websocket_endpoint(w, r) ==
  /\ endpoint[w].pc = "new"
  /\ Load < MaxLoad
  /\ active_connections' = connect(active_connections, w, r)
  /\ \E peer \in {"open", "lost"} :
       /\ endpoint' = [endpoint EXCEPT ![w] = [pc |-> peer, request_id |-> r]]
       /\ inbox' = IF peer = "open"
                     THEN [inbox EXCEPT ![w] = Append(@, Message("connection", r))]
                     ELSE inbox
  /\ UNCHANGED <<broadcast, nextEvent>>
  /\ UNCHANGED <<storevars, api, task, faults, now, http, gathervars, textvars>>

\* The peer of a connected websocket goes away; its endpoint has not
\* noticed yet.
peer_lost(w) ==
  /\ endpoint[w].pc = "open"
  /\ endpoint' = [endpoint EXCEPT ![w].pc = "lost"]
  /\ UNCHANGED <<active_connections, broadcast, inbox, nextEvent>>
  /\ UNCHANGED <<storevars, api, task, faults, now, http, gathervars, textvars>>

\* websocket_endpoint, except WebSocketDisconnect / Exception:
\* manager.disconnect.  A broadcast iterating a set whose key is deleted
\* keeps the emptied set object, whatever is registered under the key later.
websocket_endpoint_disconnect(w) ==
  /\ endpoint[w].pc \in {"open", "lost"}
  /\ LET r == endpoint[w].request_id
         reg == disconnect(active_connections, w, r)
     IN /\ active_connections' = reg
        /\ broadcast' =
             [e \in Events |->
                IF /\ broadcast[e].pc = "await"
                   /\ broadcast[e].request_id = r
                   /\ active_connections[r].present
                   /\ ~reg[r].present
                  THEN [broadcast[e] EXCEPT !.detached = TRUE]
                  ELSE broadcast[e]]
  /\ endpoint' = [endpoint EXCEPT ![w].pc = "closed"]
  /\ UNCHANGED <<inbox, nextEvent>>
  /\ UNCHANGED <<storevars, api, task, faults, now, http, gathervars, textvars>>

\* The set a broadcast iterates, as its iterator sees it.
Iterated(b) == IF b.detached THEN {} ELSE Registered(b.request_id)

\* The connections the set iterator may yield next.  Two iterations of a set
\* that holds the same connections yield them in the same order (here: by
\* number); once the set has changed, the place of a connection in the
\* table is open.
NextConnections(b) ==
  LET rest == Iterated(b) \ b.visited
  IN IF Iterated(b) = b.orig
       THEN {w \in rest : \A v \in rest : w <= v}
       ELSE rest

\* broadcast_to_request, the end of the loop: the connections whose send
\* raised are discarded; the key stays, also for a set left empty.
broadcast_return(b, reg) ==
  [reg EXCEPT ![b.request_id].set = @ \ b.disconnected]

\* broadcast_to_request, one turn of the loop: send to the connection and
\* wait for the send.
broadcast_send(e, b, w) ==
  \E o \in SendOutcomes(w) :
    /\ inbox' = Deliver(inbox, w, b.message, o)
    /\ broadcast' =
         [broadcast EXCEPT ![e] =
            [b EXCEPT !.pc = "await",
                      !.connection = w,
                      !.visited = @ \cup {w},
                      !.disconnected = IF o = "raised" THEN @ \cup {w} ELSE @]]
    /\ UNCHANGED active_connections

\* broadcast_to_request up to its first await, called by
\* send_progress_update or send_completion_update: nothing when the key is
\* absent, else the iteration of the set begins.
broadcast_to_request(type, r) ==
  /\ nextEvent \in Events
  /\ Load < MaxLoad
  /\ nextEvent' = nextEvent + 1
  /\ LET e == nextEvent
         b == [IdleBroadcast EXCEPT !.request_id = r,
                                    !.message = Message(type, e),
                                    !.orig = Registered(r)]
     IN IF ~active_connections[r].present \/ Registered(r) = {}
          THEN /\ broadcast' = [broadcast EXCEPT ![e] = [b EXCEPT !.pc = "returned"]]
               /\ UNCHANGED <<active_connections, inbox>>
          ELSE \E w \in NextConnections(b) : broadcast_send(e, b, w)
  /\ UNCHANGED endpoint
  /\ UNCHANGED <<storevars, api, task, faults, now, http, gathervars, textvars>>

send_progress_update(r) == broadcast_to_request("progress", r)

send_completion_update(r) == broadcast_to_request("completion", r)

\* broadcast_to_request after an await: the set iterator raises RuntimeError
\* when the size of the set is not the size it had when the loop began;
\* otherwise the loop goes on with a connection not yet visited.  After a
\* change that kept the size, a connection added meanwhile may be visited
\* or not.
broadcast_next(e) ==
  /\ broadcast[e].pc = "await"
  /\ LET b == broadcast[e]
         rest == Iterated(b) \ b.visited
     IN IF Cardinality(Iterated(b)) # Cardinality(b.orig)
          THEN /\ broadcast' = [broadcast EXCEPT ![e].pc = "raised"]
               /\ UNCHANGED <<active_connections, inbox>>
          ELSE \/ \E w \in NextConnections(b) : broadcast_send(e, b, w)
               \/ /\ rest \cap b.orig = {}
                  /\ active_connections' = broadcast_return(b, active_connections)
                  /\ broadcast' = [broadcast EXCEPT ![e].pc = "returned"]
                  /\ UNCHANGED inbox
  /\ UNCHANGED <<endpoint, nextEvent>>
  /\ UNCHANGED <<storevars, api, task, faults, now, http, gathervars, textvars>>

NextWs ==
  \/ \E w \in Sockets, r \in JobIds : websocket_endpoint(w, r)
  \/ \E w \in Sockets : peer_lost(w)
  \/ \E w \in Sockets : websocket_endpoint_disconnect(w)
  \/ \E r \in JobIds : send_progress_update(r)
  \/ \E r \in JobIds : send_completion_update(r)
  \/ \E e \in Events : broadcast_next(e)

SpecWs == Init /\ [][NextWs]_vars

\* ------------------------------------------------------- the keep-alive
\* What a client may send: a JSON object of type ping, a JSON object of
\* another type, a JSON value that is no object, a text that is no JSON.
ClientData == {"ping", "other", "scalar", "garbage"}

\* A receive loop that answers a ping with a pong to every subscriber of
\* the request instead of the one that asked.
websocket_endpoint_receive_to_all(w, data) ==
  /\ endpoint[w].pc = "open"
  /\ data = "ping"
  /\ Load < MaxLoad
  /\ inbox' = [v \in Sockets |->
                 IF v \in Registered(endpoint[w].request_id) /\ endpoint[v].pc = "open"
                   THEN Append(inbox[v], Pong)
                   ELSE inbox[v]]
  /\ UNCHANGED <<active_connections, endpoint, broadcast, nextEvent>>
  /\ UNCHANGED <<storevars, api, task, faults, now, http, gathervars, textvars>>

\* websocket_endpoint, one turn of the receive loop with a message of the
\* client: a ping is answered with a pong through send_personal_message;
\* another object and a JSONDecodeError are passed over; a value without
\* .get raises AttributeError, which the outer except answers with
\* manager.disconnect.
websocket_endpoint_receive(w, data) ==
  /\ endpoint[w].pc = "open"
  /\ IF data = "scalar"
       THEN websocket_endpoint_disconnect(w)
       ELSE /\ data = "ping" => Load < MaxLoad
            /\ inbox' = IF data = "ping" THEN [inbox EXCEPT ![w] = Append(@, Pong)] ELSE inbox
            /\ UNCHANGED <<active_connections, endpoint, broadcast, nextEvent>>
            /\ UNCHANGED <<storevars, api, task, faults, now, http, gathervars, textvars>>

\* websocket_endpoint, asyncio.TimeoutError after 30 seconds without a
\* message of the client: a ping through send_personal_message, which
\* swallows a failed send.
websocket_endpoint_timeout(w) ==
  /\ endpoint[w].pc \in {"open", "lost"}
  /\ Load < MaxLoad
  /\ \E o \in SendOutcomes(w) : inbox' = Deliver(inbox, w, Ping, o)
  /\ UNCHANGED <<active_connections, endpoint, broadcast, nextEvent>>
  /\ UNCHANGED <<storevars, api, task, faults, now, http, gathervars, textvars>>

NextAlive ==
  \/ NextWs
  \/ \E w \in Sockets, data \in ClientData : websocket_endpoint_receive(w, data)
  \/ \E w \in Sockets : websocket_endpoint_timeout(w)

SpecAlive == Init /\ [][NextAlive]_vars

\* ------------------------------------------------------ one gathering
\* The aggregator on every answer the two sources can give.
InitGather ==
  /\ jobs = [j \in JobIds |-> NoRow]
  /\ nextJobId = 1
  /\ logs = <<>>
  /\ nextLogId = 1
  /\ articles = <<>>
  /\ nextArticleId = 1
  /\ api = [j \in JobIds |-> "none"]
  /\ task = [j \in JobIds |-> IdleTask]
  /\ faults = 0
  /\ now = 0
  /\ http = NoResponse
  /\ active_connections = [r \in JobIds |-> NoConnections]
  /\ endpoint = [w \in Sockets |-> [pc |-> "new", request_id |-> 0]]
  /\ broadcast = [e \in Events |-> IdleBroadcast]
  /\ inbox = [w \in Sockets |-> <<>>]
  /\ nextEvent = 1
  /\ fetched \in [wiki : WikiResponses, hn : HNResponses]
  /\ gathered = NotGathered
  /\ text = ""
  /\ keywords = NoKeywords
  /\ summary = NoSummary

NextGather == gather

SpecGather == InitGather /\ [][NextGather]_vars

\* --------------------------------------------------- the ContentProcessor
\* Texts are strings; Char(s, i) is the i-th character of s.
Char(s, i) == SubSeq(s, i, i)

CharsOf(s) == {Char(s, i) : i \in 1..Len(s)}

UpperCase == "ABCDEFGHIJKLMNOPQRSTUVWXYZ"
LowerCase == "abcdefghijklmnopqrstuvwxyz"

UpperChars == CharsOf(UpperCase)

\* The characters the pattern \w matches and those \s matches.
WordChars == UpperChars \cup CharsOf(LowerCase) \cup CharsOf("0123456789") \cup {"_"}
SpaceChars == {" ", "\t", "\n"}

\* The characters the pattern [.!?] matches.
Terminators == {".", "!", "?"}

\* str.lower(), for one character.
lower(c) ==
  IF c \in UpperChars
    THEN Char(LowerCase, CHOOSE i \in 1..Len(UpperCase) : Char(UpperCase, i) = c)
    ELSE c

RECURSIVE normalise(_)
\* re.sub(r'[^\w\s]', ' ', text.lower())
normalise(s) ==
  IF s = "" THEN ""
  ELSE LET c == lower(Head(s))
       IN (IF c \in WordChars \cup SpaceChars THEN c ELSE " ") \o normalise(Tail(s))

RECURSIVE split(_, _, _)
\* str.split(): the maximal runs of characters that are not whitespace;
\* word is the run being read, words the runs read so far.
split(s, word, words) ==
  IF s = "" THEN (IF word = "" THEN words ELSE Append(words, word))
  ELSE IF Head(s) \in SpaceChars
    THEN split(Tail(s), "", IF word = "" THEN words ELSE Append(words, word))
    ELSE split(Tail(s), word \o Head(s), words)

stop_words ==
  {"the", "a", "an", "and", "or", "but", "in", "on", "at", "to", "for", "of", "with",
   "by", "from", "up", "about", "into", "through", "during", "before", "after",
   "above", "below", "between", "among", "is", "are", "was", "were", "be", "been",
   "being", "have", "has", "had", "do", "does", "did", "will", "would", "could",
   "should", "may", "might", "must", "can", "this", "that", "these", "those",
   "i", "you", "he", "she", "it", "we", "they", "me", "him", "her", "us", "them"}

RECURSIVE count_words(_, _)
\* The loop that fills word_freq, a dict: its items in insertion order.
count_words(words, word_freq) ==
  IF words = <<>> THEN word_freq
  ELSE LET word == Head(words) IN
    IF Len(word) > MinWordLen /\ word \notin stop_words
      THEN IF \E i \in DOMAIN word_freq : word_freq[i].word = word
        THEN count_words(Tail(words),
                         [i \in DOMAIN word_freq |->
                            IF word_freq[i].word = word
                              THEN [word |-> word, freq |-> word_freq[i].freq + 1]
                              ELSE word_freq[i]])
        ELSE count_words(Tail(words), Append(word_freq, [word |-> word, freq |-> 1]))
      ELSE count_words(Tail(words), word_freq)

RECURSIVE insert_by_freq_last_first(_, _)
\* insert_by_freq putting an item before the items of its own frequency.
insert_by_freq_last_first(items, x) ==
  IF items = <<>> THEN <<x>>
  ELSE IF Head(items).freq > x.freq
    THEN <<Head(items)>> \o insert_by_freq_last_first(Tail(items), x)
    ELSE <<x>> \o items

RECURSIVE insert_by_freq(_, _)
insert_by_freq(items, x) ==
  IF items = <<>> THEN <<x>>
  ELSE IF Head(items).freq >= x.freq
    THEN <<Head(items)>> \o insert_by_freq(Tail(items), x)
    ELSE <<x>> \o items

RECURSIVE sorted_by_freq(_)
\* sorted(word_freq.items(), key=lambda x: x[1], reverse=True): a stable
\* sort, items of equal frequency keep their order.
sorted_by_freq(items) ==
  IF items = <<>> THEN <<>>
  ELSE insert_by_freq(sorted_by_freq(SubSeq(items, 1, Len(items) - 1)), items[Len(items)])

extract_keywords(t) ==
  IF t = "" THEN <<>>
  ELSE LET words == split(normalise(t), "", <<>>)
           sorted_words == Take(sorted_by_freq(count_words(words, <<>>)), MaxKeywords)
       IN [i \in DOMAIN sorted_words |-> sorted_words[i].word]

\* The k-th smallest element of a set of numbers.
Nth(S, k) == CHOOSE x \in S : Cardinality({y \in S : y < x}) = k - 1

\* re.split(r'[.!?]+', text): the pieces between the runs of terminators,
\* the empty pieces at the two ends included.  A run begins at a
\* terminator that follows none and ends before the next character that
\* is none.
re_split(t) ==
  LET begins == {i \in 1..Len(t) : /\ Char(t, i) \in Terminators
                                   /\ i = 1 \/ Char(t, i - 1) \notin Terminators}
      ends == {i \in 1..Len(t) : /\ Char(t, i) \in Terminators
                                 /\ i = Len(t) \/ Char(t, i + 1) \notin Terminators}
      n == Cardinality(begins)
  IN [k \in 1..(n + 1) |->
        SubSeq(t, IF k = 1 THEN 1 ELSE Nth(ends, k - 1) + 1,
                  IF k = n + 1 THEN Len(t) ELSE Nth(begins, k) - 1)]

RECURSIVE lstrip(_)
lstrip(s) == IF s # "" /\ Head(s) \in SpaceChars THEN lstrip(Tail(s)) ELSE s

RECURSIVE rstrip(_)
rstrip(s) ==
  IF s # "" /\ Char(s, Len(s)) \in SpaceChars THEN rstrip(SubSeq(s, 1, Len(s) - 1)) ELSE s

\* str.strip()
str_strip(s) == rstrip(lstrip(s))

RECURSIVE join(_, _)
\* sep.join(strings)
join(sep, strings) ==
  IF strings = <<>> THEN ""
  ELSE IF Len(strings) = 1 THEN Head(strings)
  ELSE Head(strings) \o sep \o join(sep, Tail(strings))

\* generate_summary without its cap on the number of sentences.
generate_summary_uncapped(t) ==
  IF t = "" THEN ""
  ELSE LET pieces == re_split(t)
           sentences == SelectSeq([i \in DOMAIN pieces |-> str_strip(pieces[i])], LAMBDA x : x # "")
       IN join(". ", sentences) \o "."

generate_summary(t) ==
  IF t = "" THEN ""
  ELSE LET pieces == re_split(t)
           sentences == SelectSeq([i \in DOMAIN pieces |-> str_strip(pieces[i])], LAMBDA x : x # "")
       IN IF Len(sentences) <= MaxSentences
            THEN join(". ", sentences) \o "."
            ELSE join(". ", Take(sentences, MaxSentences)) \o "."

\* The ContentProcessor is handed a text and asked for its keywords and
\* for its summary.
call_extract_keywords ==
  /\ ~keywords.done
  /\ keywords' = [done |-> TRUE, value |-> extract_keywords(text)]
  /\ UNCHANGED <<storevars, api, task, faults, now, http, wsvars, gathervars, text, summary>>

call_generate_summary ==
  /\ ~summary.done
  /\ summary' = [done |-> TRUE, value |-> generate_summary(text)]
  /\ UNCHANGED <<storevars, api, task, faults, now, http, wsvars, gathervars, text, keywords>>

\* The texts: every text of at most MaxChars characters of Alphabet, and
\* the first words of LeadWords followed by at most MaxPieces of Pieces.
Alphabet == {"a", " ", ".", "?"}

RECURSIVE Strings(_)
Strings(n) ==
  IF n = 0 THEN {""}
  ELSE LET shorter == Strings(n - 1) IN shorter \cup {x \o c : x \in shorter, c \in Alphabet}

LeadWords ==
  <<"data", "base", "code", "tree", "node", "list", "heap", "sort", "hash", "path",
    "loop", "type">>

Pieces == {"Type ", "LOOP-loop, ", "that ", "cat ", "path_x ", "hash! "}

RECURSIVE Tails(_)
Tails(n) ==
  IF n = 0 THEN {""}
  ELSE LET shorter == Tails(n - 1) IN shorter \cup {x \o piece : x \in shorter, piece \in Pieces}

Texts ==
  Strings(MaxChars)
    \cup {join(" ", Take(LeadWords, k)) \o " " \o tail :
            k \in {0} \cup (MaxKeywords - 1)..MaxLead, tail \in Tails(MaxPieces)}

InitText ==
  /\ jobs = [j \in JobIds |-> NoRow]
  /\ nextJobId = 1
  /\ logs = <<>>
  /\ nextLogId = 1
  /\ articles = <<>>
  /\ nextArticleId = 1
  /\ api = [j \in JobIds |-> "none"]
  /\ task = [j \in JobIds |-> IdleTask]
  /\ faults = 0
  /\ now = 0
  /\ http = NoResponse
  /\ active_connections = [r \in JobIds |-> NoConnections]
  /\ endpoint = [w \in Sockets |-> [pc |-> "new", request_id |-> 0]]
  /\ broadcast = [e \in Events |-> IdleBroadcast]
  /\ inbox = [w \in Sockets |-> <<>>]
  /\ nextEvent = 1
  /\ fetched = NothingFetched
  /\ gathered = NotGathered
  /\ text \in Texts
  /\ keywords = NoKeywords
  /\ summary = NoSummary

NextText == call_extract_keywords \/ call_generate_summary

SpecText == InitText /\ [][NextText]_vars

\* ------------------------------------- the workflow and its subscribers
\* What the repository runs when a request is worked on while websockets
\* subscribe to it: the handlers and the worker of SpecLive for the last
\* request id, and the websocket endpoint.  Nothing in the repository calls
\* send_progress_update or send_completion_update, so no step of the
\* worker touches the progress channel.
InitRun ==
  /\ jobs = [j \in JobIds |-> NoRow]
  /\ nextJobId = MaxJobs
  /\ logs = <<>>
  /\ nextLogId = 1
  /\ articles = <<>>
  /\ nextArticleId = 1
  /\ api = [j \in JobIds |-> IF j < MaxJobs THEN "responded" ELSE "none"]
  /\ task = [j \in JobIds |->
               IF j < MaxJobs THEN Done(Raise(IdleTask, NotFoundMsg, 6)) ELSE IdleTask]
  /\ faults = MaxFaults
  /\ now = 0
  /\ http = NoResponse
  /\ active_connections = [r \in JobIds |-> NoConnections]
  /\ endpoint = [w \in Sockets |-> [pc |-> "new", request_id |-> 0]]
  /\ broadcast = [e \in Events |-> IdleBroadcast]
  /\ inbox = [w \in Sockets |-> <<>>]
  /\ nextEvent = 1
  /\ fetched = NothingFetched
  /\ gathered = NotGathered
  /\ text = ""
  /\ keywords = NoKeywords
  /\ summary = NoSummary

NextRun ==
  \/ NextLive
  \/ \E w \in Sockets, r \in JobIds : websocket_endpoint(w, r)
  \/ \E w \in Sockets : peer_lost(w)
  \/ \E w \in Sockets : websocket_endpoint_disconnect(w)

SpecRun ==
  /\ InitRun
  /\ [][NextRun]_vars
  /\ \A j \in JobIds : WF_vars(start_research_workflow(j))

\* ================================================================ claims
LogsOf(j) == SelectSeq(logs, LAMBDA l : l.research_request_id = j)
ArticlesOf(j) == SelectSeq(articles, LAMBDA a : a.research_request_id = j)
Entries(j, k) == SelectSeq(LogsOf(j), LAMBDA l : l.step = WorkflowStep[k])
IsTerminal(l) == l.status \in {"completed", "failed"}
\* The task of j ended, and the exception it ended with came out of a stage.
StageFailed(j) == task[j].pc = "done" /\ task[j].raised \in 1..Len(WorkflowStep)
\* The failure entry the except clause of the task writes for exception e.
IsFailureEntry(l, e) ==
  /\ l.step = RETURN_RESULTS
  /\ l.status = "failed"
  /\ l.created_as = "failed"
  /\ l.message = Msg("Workflow failed: {}", e)

\* C1: the status of a request only ever changes pending -> processing,
\* processing -> completed or processing -> failed, and never leaves
\* completed or failed.
C1_StatusMonotonic ==
  [][\A j \in JobIds :
       (Exists(j) /\ jobs'[j] # NoRow /\ jobs'[j].status # jobs[j].status)
         => <<jobs[j].status, jobs'[j].status>> \in
              {<<PENDING, PROCESSING>>, <<PROCESSING, COMPLETED>>, <<PROCESSING, FAILED>>}]_vars

\* C2: in every stage the started entry exists while the stage works; when
\* the work succeeds that entry becomes completed; when it raises that entry
\* becomes failed, no stage gets a second started entry, and from then on
\* no later stage is started.
C2_StageProtocol ==
  [][\A j \in JobIds : (Exists(j) /\ jobs'[j] # NoRow) =>
       /\ task[j].pc \in {"work", "articles", "update", "except"}
            => \E i \in DOMAIN logs :
                 /\ logs[i].id = task[j].log
                 /\ logs[i].research_request_id = j
                 /\ logs[i].step = WorkflowStep[task[j].stage]
                 /\ logs[i].created_as = "started"
       /\ (task[j].pc \in {"work", "update"} /\ task'[j].pc \in {"create", "set_completed"})
            => \E i \in DOMAIN logs' :
                 logs'[i].id = task[j].log /\ logs'[i].status = "completed"
       /\ (task[j].pc = "except" /\ task'[j].pc = "h_log")
            => \E i \in DOMAIN logs' :
                 logs'[i].id = task[j].log /\ logs'[i].status = "failed"
       /\ \A k \in 1..Len(WorkflowStep) :
            Len(SelectSeq(Entries(j, k), LAMBDA l : l.created_as = "started")) <= 1
       /\ task[j].raised \in 1..Len(WorkflowStep)
            => \A i \in DOMAIN logs' :
                 (/\ logs'[i].research_request_id = j
                  /\ logs'[i].id >= nextLogId
                  /\ logs'[i].created_as = "started")
                   => StepIndex(logs'[i].step) <= task[j].raised]_vars

\* C3: an input_parsing entry exists only once the status has left pending;
\* the started entry of stage k+1 exists only when stage k's entry is
\* completed; the entries of a request, in creation order, follow the
\* stage order.
C3_StageOrder ==
  \A j \in JobIds :
    /\ (Exists(j) /\ Entries(j, 1) # <<>>) => jobs[j].status # PENDING
    /\ Exists(j) =>
         \A k \in 2..Len(WorkflowStep) :
           (\E i \in DOMAIN Entries(j, k) : Entries(j, k)[i].created_as = "started")
             => \E i \in DOMAIN Entries(j, k - 1) :
                  Entries(j, k - 1)[i].status = "completed"
    /\ \A a, b \in DOMAIN LogsOf(j) :
         a < b => StepIndex(LogsOf(j)[a].step) <= StepIndex(LogsOf(j)[b].step)

\* A request whose five stages all have their entry.
C3_Witness ==
  \E j \in JobIds :
    /\ Exists(j)
    /\ \A k \in 1..Len(WorkflowStep) : Entries(j, k) # <<>>
    /\ Len(LogsOf(j)) = Len(WorkflowStep)

\* C4: when the task ended on an exception of a stage, the request has the
\* failure entry under return_results, its status is failed, its
\* errorMessage is the exception's message and completedAt is unset.
C4_FailureHandler ==
  \A j \in JobIds :
    (Exists(j) /\ StageFailed(j)) =>
      /\ \E i \in DOMAIN LogsOf(j) : IsFailureEntry(LogsOf(j)[i], task[j].exc)
      /\ jobs[j].status = FAILED
      /\ jobs[j].error_message = task[j].exc
      /\ jobs[j].completed_at = -1

\* C5: no task that ended on an exception of a stage leaves its request in
\* pending or processing: the request is failed and has an error entry.
C5_FailedAfterException ==
  \A j \in JobIds :
    (Exists(j) /\ StageFailed(j)) =>
      /\ jobs[j].status \notin {PENDING, PROCESSING}
      /\ jobs[j].status = FAILED
      /\ \E i \in DOMAIN LogsOf(j) : LogsOf(j)[i].status = "failed"

\* C6: a completed request has completedAt set and carries the payload of
\* return_results: the topic of the request, at most five top articles,
\* each a stored article of that request, and an elapsed time >= 0.
C6_CompletedResults ==
  \A j \in JobIds :
    (Exists(j) /\ jobs[j].status = COMPLETED) =>
      /\ jobs[j].completed_at # -1
      /\ jobs[j].results # NoResults
      /\ jobs[j].results.topic = jobs[j].topic
      /\ Len(jobs[j].results.top_articles) <= 5
      /\ \A i \in DOMAIN jobs[j].results.top_articles :
           /\ jobs[j].results.top_articles[i].research_request_id = j
           /\ \E n \in DOMAIN articles : articles[n] = jobs[j].results.top_articles[i]
      /\ jobs[j].results.processing_time_ms >= 0
      /\ \E i \in DOMAIN Entries(j, 5) :
           /\ Entries(j, 5)[i].status = "completed"
           /\ Entries(j, 5)[i].details.processing_time_ms = jobs[j].results.processing_time_ms
           /\ Entries(j, 5)[i].details.articles_returned = Len(jobs[j].results.top_articles)

\* The second request completed with two top articles and a positive
\* elapsed time while the first request has articles of its own.
C6_Witness ==
  /\ Exists(1)
  /\ ArticlesOf(1) # <<>>
  /\ Exists(2)
  /\ jobs[2].status = COMPLETED
  /\ Len(jobs[2].results.top_articles) = 2
  /\ jobs[2].results.processing_time_ms > 0

\* C7: results and completedAt are present only on a completed request,
\* errorMessage only on a failed one.
C7_FieldsMatchStatus ==
  \A j \in JobIds :
    Exists(j) =>
      /\ jobs[j].results # NoResults => jobs[j].status = COMPLETED
      /\ jobs[j].completed_at # -1 => jobs[j].status = COMPLETED
      /\ jobs[j].error_message # NONE => jobs[j].status = FAILED

\* C8: a failed request has a non-empty errorMessage, the message of the
\* exception that ended its task.
C8_ErrorMessage ==
  \A j \in JobIds :
    (Exists(j) /\ jobs[j].status = FAILED) =>
      /\ jobs[j].error_message \notin {NONE, ""}
      /\ task[j].pc = "done" => jobs[j].error_message = task[j].exc

\* The task of j began stage k.
Begun(j, k) ==
  \/ task[j].stage > k
  \/ task[j].stage = k /\ task[j].pc \in {"work", "articles", "update", "except"}
  \/ task[j].pc = "set_completed"

\* C9: per request and stage there is at most one entry created as started,
\* exactly one once the stage has begun, and at most one entry that is
\* completed or failed.
C9_EntriesPerStage ==
  \A j \in JobIds : \A k \in 1..Len(WorkflowStep) :
    Exists(j) =>
      /\ Len(SelectSeq(Entries(j, k), LAMBDA l : l.created_as = "started")) <= 1
      /\ Begun(j, k) =>
           Len(SelectSeq(Entries(j, k), LAMBDA l : l.created_as = "started")) = 1
      /\ Len(SelectSeq(Entries(j, k), IsTerminal)) <= 1

\* Stage 1 of the task of j has done its work.
ParsingDone(j) ==
  \/ task[j].stage > 1
  \/ task[j].pc = "set_completed"
  \/ task[j].stage = 1 /\ task[j].pc = "except"
  \/ task[j].raised \in 1..Len(WorkflowStep) /\ task[j].exc # StoreErrorMsg
  \/ task[j].pc = "done" /\ task[j].raised = 0

C11_ShortTopicFails ==
  [][/\ \A t \in Topics : len(strip(t)) < 3 => ~create_research_request_refused(t)
     /\ \A j \in JobIds :
          (Exists(j) /\ len(strip(jobs[j].topic)) < 3) =>
            /\ ArticlesOf(j) = <<>>
            /\ task[j].pc = "done" =>
                 jobs[j].status = FAILED /\ jobs[j].error_message = MinLengthMsg]_vars

\* The entry of data_gathering says that the aggregator returned nothing.
GatheredNothing(j) ==
  \E i \in DOMAIN Entries(j, 2) :
    /\ Entries(j, 2)[i].status = "completed"
    /\ Entries(j, 2)[i].details.articles_count = 0

\* C12: when every provider fails or returns no items the aggregator
\* returns the empty list; a run in which it did so, and in which no store
\* call raised, passes all five stages and ends completed with
\* total_articles_found = 0, and the request never has an article.
C12_NothingGathered ==
  /\ \A w \in WikiOutcomes, h \in HNOutcomes :
       ((~w.ok \/ w.items = <<>>) /\ (~h.ok \/ h.items = <<>>))
         => gather_research_data(w, h) = <<>>
  /\ \A j \in JobIds :
       (Exists(j) /\ GatheredNothing(j)) =>
         /\ ArticlesOf(j) = <<>>
         /\ faults = 0 =>
              /\ task[j].raised = 0
              /\ task[j].pc = "done" =>
                   /\ jobs[j].status = COMPLETED
                   /\ jobs[j].results.total_articles_found = 0
                   /\ jobs[j].results.top_articles = <<>>
                   /\ \A k \in 1..Len(WorkflowStep) :
                        \E i \in DOMAIN Entries(j, k) : Entries(j, k)[i].status = "completed"

\* A request completed after the aggregator returned nothing.
C12_Witness ==
  \E j \in JobIds :
    /\ Exists(j)
    /\ GatheredNothing(j)
    /\ task[j].pc = "done"
    /\ jobs[j].status = COMPLETED
    /\ jobs[j].results.total_articles_found = 0

\* C13: when every store call succeeds, a request that a worker has set to
\* processing eventually is completed or failed, and no stage of its run
\* is started twice.
C13_RunTerminates ==
  /\ \A j \in JobIds :
       (Exists(j) /\ jobs[j].status = PROCESSING)
         ~> (Exists(j) /\ jobs[j].status \in {COMPLETED, FAILED})
  /\ [](\A j \in JobIds : \A k \in 1..Len(WorkflowStep) :
          Len(SelectSeq(Entries(j, k), LAMBDA l : l.created_as = "started")) <= 1)

\* Both tasks ended, one with its request completed, one with it failed.
C13_Witness ==
  /\ \A j \in JobIds : Exists(j) /\ task[j].pc = "done"
  /\ \E j \in JobIds : jobs[j].status = COMPLETED
  /\ \E j \in JobIds : jobs[j].status = FAILED

\* C14: the request that POST /research returns, the row as update_task_id
\* re-read it, is pending, has no results and carries the task's handle.
C14_CreateAnswer ==
  [][\A j \in JobIds :
       (api[j] = "delayed" /\ api'[j] = "responded") =>
         /\ jobs'[j] # NoRow
         /\ jobs'[j].status = PENDING
         /\ jobs'[j].results = NoResults
         /\ jobs'[j].task_id = j]_vars

\* C15: a deletion leaves the task of the deleted request as it is, and
\* the task goes on: the next stage writes its started entry under the
\* deleted id and does its work, and result_persistence writes its
\* articles under it.
C15_WorkerGoesOn ==
  [][\A j \in JobIds :
       /\ (Exists(j) /\ jobs'[j] = NoRow) => task'[j] = task[j]
       /\ (/\ ~Exists(j)
           /\ task[j].pc = "create"
           /\ task[j].stage > 1
           /\ task'[j] # task[j]) =>
            /\ task'[j].pc = "work"
            /\ Len(SelectSeq(logs', LAMBDA l : l.research_request_id = j))
                 = Len(LogsOf(j)) + 1
       /\ (/\ ~Exists(j)
           /\ task[j].pc = "work"
           /\ task[j].stage = 4
           /\ task[j].todo # <<>>
           /\ task'[j] # task[j]) =>
            /\ task'[j].pc = "work"
            /\ Len(SelectSeq(articles', LAMBDA a : a.research_request_id = j))
                 = Len(ArticlesOf(j)) + 1]_vars

Deleted(j) == j < nextJobId /\ ~Exists(j)

C18_NotFound ==
  [][\A j \in JobIds :
       (/\ ~Exists(j)
        /\ http' # http
        /\ http'.id = j
        /\ http'.op \in {"get", "logs", "delete"}) =>
         /\ http'.code = 404 \/ (http'.code = 500 /\ faults' = faults + 1)
         /\ UNCHANGED storevars]_vars

\* A second DELETE of the last id was answered 404.
C18_Witness ==
  /\ Deleted(MaxJobs)
  /\ task[MaxJobs].pc = "done"
  /\ http = Response("delete", MaxJobs, 404)

\* The number of times a message is in a websocket's inbox.
Received(w, message) == Len(SelectSeq(inbox[w], LAMBDA m : m = message))

\* C19: a broadcast during which a subscriber disconnects or a new one
\* connects does not raise, and when it has returned every subscriber that
\* was registered when it began and is still connected has got its message.
C19_BroadcastSurvives ==
  \A e \in Events :
    /\ broadcast[e].pc # "raised"
    /\ broadcast[e].pc = "returned" =>
         \A w \in broadcast[e].orig :
           endpoint[w].pc = "open" => Received(w, broadcast[e].message) = 1

\* C20: a broadcast with a send that raised does not raise itself, and
\* when it returns the subscribers whose send raised are out of the
\* registry while every other one, as long as it stays connected, is still
\* registered and has got the message exactly once.
C20_FailedSendRemoved ==
  [][\A e \in Events :
       (broadcast[e].pc = "await" /\ broadcast'[e].pc # "await" /\ broadcast[e].disconnected # {}) =>
         /\ broadcast'[e].pc = "returned"
         /\ LET b == broadcast[e]
            IN /\ active_connections'[b.request_id].set \cap b.disconnected = {}
               /\ \A w \in b.orig \ b.disconnected :
                    endpoint[w].pc = "open" =>
                      /\ w \in active_connections'[b.request_id].set
                      /\ Received(w, b.message) = 1]_vars

\* The numbers of the events of D in a websocket's inbox, in the order
\* they arrived.
EventsOf(w, D) ==
  LET got == SelectSeq(inbox[w], LAMBDA m : m.type \in {"progress", "completion"} /\ m.n \in D)
  IN [i \in DOMAIN got |-> got[i].n]

\* The events of D in the order their broadcasts began.
Ascending(D) ==
  CHOOSE s \in [1..Cardinality(D) -> D] : \A i, j \in DOMAIN s : i < j => s[i] < s[j]

\* The broadcasts for request r that are over and began with w1 and w2
\* registered.
Over(r, w1, w2) ==
  {e \in Events : /\ broadcast[e].request_id = r
                  /\ broadcast[e].pc \in {"returned", "raised"}
                  /\ {w1, w2} \subseteq broadcast[e].orig}

\* The subscriber is connected and registered for r.
Subscribed(w, r) ==
  endpoint[w] = [pc |-> "open", request_id |-> r] /\ w \in Registered(r)

\* C21: two subscribers registered for the same request from before a
\* series of broadcasts until now, with no send of those broadcasts having
\* raised, have got the events of those broadcasts in the same order, the
\* order in which they were broadcast.
C21_SameSequence ==
  \A r \in JobIds : \A w1, w2 \in Sockets :
    (/\ w1 # w2
     /\ Subscribed(w1, r)
     /\ Subscribed(w2, r)
     /\ \A e \in Over(r, w1, w2) : broadcast[e].disconnected = {}) =>
      /\ EventsOf(w1, Over(r, w1, w2)) = Ascending(Over(r, w1, w2))
      /\ EventsOf(w2, Over(r, w1, w2)) = Ascending(Over(r, w1, w2))

\* The websocket has got a message of the type.
Got(w, type) == \E i \in DOMAIN inbox[w] : inbox[w][i].type = type

\* C22: a subscriber registered for a request that is being processed
\* gets, unless it leaves, progress events and in the end a completion
\* event.
C22_EventsReachSubscriber ==
  \A j \in JobIds : \A w \in Sockets :
    (Subscribed(w, j) /\ Exists(j) /\ jobs[j].status = PROCESSING)
      ~> (~Subscribed(w, j) \/ (Got(w, "progress") /\ Got(w, "completion")))

\* The message of broadcast e is in the websocket's inbox.
Has(box, w, e) == \E i \in DOMAIN box[w] : box[w][i] = broadcast[e].message

\* C23: the message of a broadcast reaches a websocket only during that
\* broadcast and only if the websocket was registered for its request
\* then; a broadcast that is over stays over.  So a subscriber that
\* registers after an event was broadcast never gets it.
C23_NoHistory ==
  [][\A e \in Events :
       /\ broadcast[e].pc \in {"returned", "raised"} =>
            /\ broadcast'[e] = broadcast[e]
            /\ \A w \in Sockets : Has(inbox', w, e) => Has(inbox, w, e)
       /\ \A w \in Sockets :
            (~Has(inbox, w, e) /\ Has(inbox', w, e)) =>
              w \in active_connections[broadcast'[e].request_id].set]_vars

\* A subscriber that registered between two broadcasts for its request has
\* got the second event and not the first.
C23_Witness ==
  \E w \in Sockets : \E r \in JobIds :
    /\ Subscribed(w, r)
    /\ broadcast[1].pc = "returned" /\ broadcast[1].request_id = r
    /\ broadcast[1].orig # {} /\ w \notin broadcast[1].orig
    /\ broadcast[2].pc = "returned" /\ broadcast[2].request_id = r
    /\ inbox[w] = <<Message("connection", r), broadcast[2].message>>

\* C24: whatever a websocket has got begins with the connection message
\* for its request id, which it gets once; a websocket that has not
\* connected has got nothing, and a connected subscriber has got its
\* connection message.
C24_AckFirst ==
  \A w \in Sockets :
    /\ endpoint[w].pc = "new" => inbox[w] = <<>>
    /\ inbox[w] # <<>> =>
         /\ inbox[w][1] = Message("connection", endpoint[w].request_id)
         /\ \A i \in DOMAIN inbox[w] : i > 1 => inbox[w][i].type # "connection"
    /\ endpoint[w].pc = "open" => inbox[w] # <<>>

\* A websocket registered while a broadcast for its request was under way
\* (which made that broadcast raise) and has got a later event after its
\* connection message.
C24_Witness ==
  \E w \in Sockets : \E e \in Events :
    /\ Subscribed(w, broadcast[e].request_id)
    /\ broadcast[e].pc = "raised"
    /\ w \notin broadcast[e].orig
    /\ Len(inbox[w]) = 2
    /\ inbox[w][2].type \in {"progress", "completion"}

\* C25: a ping of a connected client is answered with one pong, and an
\* idle timeout makes the channel send one ping, to that websocket; a step
\* that delivers a keep-alive message delivers one message to one
\* websocket and leaves the registry, the endpoints and the broadcasts
\* (their events included) as they are.
C25_KeepAlive ==
  [][\A w \in Sockets :
       /\ websocket_endpoint_receive(w, "ping") =>
            inbox' = [inbox EXCEPT ![w] = Append(@, Pong)]
       /\ (websocket_endpoint_timeout(w) /\ endpoint[w].pc = "open") =>
            inbox' = [inbox EXCEPT ![w] = Append(@, Ping)]
       /\ Probes(w)' # Probes(w) =>
            /\ inbox'[w] \in {Append(inbox[w], Ping), Append(inbox[w], Pong)}
            /\ \A v \in Sockets \ {w} : inbox'[v] = inbox[v]
            /\ UNCHANGED <<active_connections, endpoint, broadcast, nextEvent>>]_vars

\* One of two subscribers of a request has got a pong and a ping, the
\* other no keep-alive message.
C25_Witness ==
  \E w, v \in Sockets : \E r \in JobIds :
    /\ w # v
    /\ Subscribed(w, r)
    /\ Subscribed(v, r)
    /\ inbox[w] = <<Message("connection", r), Pong, Ping>>
    /\ inbox[v] = <<Message("connection", r)>>

\* A step of the broadcast of event e: its beginning, a turn of its loop
\* or its end.
BroadcastStep(e) ==
  /\ broadcast'[e] # broadcast[e]
  /\ broadcast'[e].detached = broadcast[e].detached

\* C26: a step of a broadcast for a request leaves the sets of the other
\* requests as they are and delivers nothing but its message, to a
\* websocket registered for that request; no websocket has got an event
\* broadcast for another request than its own.
C26_Isolation ==
  [][/\ \A e \in Events :
          BroadcastStep(e) =>
            /\ \A q \in JobIds \ {broadcast'[e].request_id} :
                 active_connections'[q] = active_connections[q]
            /\ \A w \in Sockets :
                 inbox'[w] # inbox[w] =>
                   /\ inbox'[w] = Append(inbox[w], broadcast'[e].message)
                   /\ w \in Registered(broadcast'[e].request_id)
                   /\ endpoint[w].request_id = broadcast'[e].request_id
     /\ \A w \in Sockets : \A e \in Events :
          Has(inbox, w, e) => broadcast[e].request_id = endpoint[w].request_id]_vars

\* Two subscribers of different requests, an event broadcast for the
\* request of the first: the first has got it, the second has not.
C26_Witness ==
  \E w, v \in Sockets : \E e \in Events :
    /\ Subscribed(w, broadcast[e].request_id)
    /\ endpoint[v].pc = "open"
    /\ endpoint[v].request_id # broadcast[e].request_id
    /\ v \in Registered(endpoint[v].request_id)
    /\ broadcast[e].pc = "returned"
    /\ Has(inbox, w, e)
    /\ inbox[v] = <<Message("connection", endpoint[v].request_id)>>

\* The candidates the aggregator merges: the encyclopedia's items, then
\* the news items.
Merged == gathered.wikipedia_articles \o gathered.hackernews_stories

\* The place of the i-th item of s in the stable descending sort of s: after
\* the items of higher score and the earlier items of equal score.
Rank(s, i) ==
  1 + Cardinality({j \in DOMAIN s : s[j].relevance_score > s[i].relevance_score})
    + Cardinality({j \in DOMAIN s : j < i /\ s[j].relevance_score = s[i].relevance_score})

StableDesc(s) == [k \in DOMAIN s |-> s[CHOOSE i \in DOMAIN s : Rank(s, i) = k]]

\* C27: what gather_research_data returns is sorted by relevance_score,
\* highest first, has at most 5 items and is the first 5 items of the
\* stable descending sort of the merged candidates.
C27_Ranked ==
  gathered.done =>
    /\ Len(gathered.result) <= 5
    /\ \A i, k \in DOMAIN gathered.result :
         i < k => gathered.result[i].relevance_score >= gathered.result[k].relevance_score
    /\ gathered.result = Take(StableDesc(Merged), 5)

\* More than 5 candidates, and the last item returned is a news item of
\* the same score as the encyclopedia item before it.
C27_Witness ==
  /\ gathered.done
  /\ Len(Merged) > 5
  /\ Len(gathered.result) = 5
  /\ gathered.result[4].source = "wikipedia"
  /\ gathered.result[5].source = "hackernews"
  /\ gathered.result[4].relevance_score = gathered.result[5].relevance_score

\* C28: when one source fails and the other answers, the gathering ends
\* with the other provider's items, ranked, and none of the failing one;
\* an exception handed back by asyncio.gather for a provider counts as no
\* items of that provider, as its own [] does.
C28_OneProviderFails ==
  /\ \A h \in HNOutcomes :
       gather_research_data(ProviderError, h) = gather_research_data([ok |-> TRUE, items |-> <<>>], h)
  /\ \A w \in WikiOutcomes :
       gather_research_data(w, ProviderError) = gather_research_data(w, [ok |-> TRUE, items |-> <<>>])
  /\ (gathered.done /\ ~fetched.wiki.ok /\ fetched.hn.ok) =>
       /\ gathered.wikipedia_articles = <<>>
       /\ gathered.result = Take(StableDesc(gathered.hackernews_stories), 5)
       /\ LET kept == Cardinality({i \in DOMAIN fetched.hn.stories : fetched.hn.stories[i].kept})
          IN Len(gathered.result) = IF kept < 2 THEN kept ELSE 2
  /\ (gathered.done /\ fetched.wiki.ok /\ ~fetched.hn.ok) =>
       /\ gathered.hackernews_stories = <<>>
       /\ gathered.result = Take(StableDesc(gathered.wikipedia_articles), 5)
       /\ Len(gathered.result) =
            Cardinality({i \in DOMAIN fetched.wiki.pages : i <= 5 /\ fetched.wiki.pages[i] = "article"})

\* The encyclopedia failed and the two news items come back, the second
\* found ranked first.
C28_Witness ==
  /\ gathered.done
  /\ ~fetched.wiki.ok
  /\ fetched.hn.ok
  /\ Len(gathered.result) = 2
  /\ gathered.result[1].title[2] > gathered.result[2].title[2]

\* C29: the encyclopedia provider hands at most 3 items and the news
\* provider at most 2 to the aggregator, which so merges at most 5.
C29_ProviderCaps ==
  gathered.done =>
    /\ Len(gathered.wikipedia_articles) <= 3
    /\ Len(gathered.hackernews_stories) <= 2
    /\ Len(Merged) <= 5

\* C30: every item gather_research_data returns has a relevance_score
\* from 0 to 100.
C30_ScoreRange ==
  gathered.done =>
    \A i \in DOMAIN gathered.result :
      /\ gathered.result[i].relevance_score \in Int
      /\ gathered.result[i].relevance_score >= 0
      /\ gathered.result[i].relevance_score <= 100

\* C31: the articles table changes only by one row being added for a
\* request whose result_persistence stage is running, made of the next
\* candidate handed over by the processing stage, or by the rows of a
\* request going away with the request; rows once written stay as they
\* are, whatever becomes of the run.
C31_ArticlesFrame ==
  [][\/ articles' = articles
     \/ \E j \in JobIds :
          /\ Exists(j)
          /\ jobs'[j] = NoRow
          /\ articles' = SelectSeq(articles, LAMBDA a : a.research_request_id # j)
     \/ \E j \in JobIds :
          /\ task[j].pc = "work"
          /\ task[j].stage = 4
          /\ task[j].todo # <<>>
          /\ \E k \in DOMAIN task[j].articles :
               k <= TopN /\ task[j].articles[k] = Head(task[j].todo)
          /\ articles' = Append(articles, articles'[Len(articles')])
          /\ LET a == articles'[Len(articles')]
             IN /\ a.research_request_id = j
                /\ a.title = Head(task[j].todo).title
                /\ a.source = Head(task[j].todo).source
                /\ a.relevance_score = Head(task[j].todo).relevance_score]_vars

\* A run that failed after it had persisted two articles: they are still
\* the request's.
C31_Witness ==
  \E j \in JobIds :
    /\ Exists(j)
    /\ jobs[j].status = FAILED
    /\ task[j].pc = "done"
    /\ Len(ArticlesOf(j)) = 2

\* The entries follow the order of the stages.
InStageOrder(entries) ==
  \A a, b \in DOMAIN entries : a < b => StepIndex(entries[a].step) <= StepIndex(entries[b].step)

\* C32: what GET /research/{id}/logs and GET /research/{id} return as the
\* entries of a request is in the order of the stages.
C32_LogsOrdered ==
  \A j \in JobIds :
    Exists(j) =>
      /\ InStageOrder(get_workflow_logs(j))
      /\ \A entries \in ResearchRequest_logs(j) : InStageOrder(entries)

\* The words extract_keywords reads in a text, in their order.
Tokens(t) == split(normalise(t), "", <<>>)

\* How often a word is among the words read, and where it is first.
Frequency(words, w) == Cardinality({i \in DOMAIN words : words[i] = w})
FirstSeen(words, w) == CHOOSE i \in DOMAIN words :
                         words[i] = w /\ \A k \in 1..(i - 1) : words[k] # w

\* C33: the keywords of a text are a function of the text; they are at
\* most 10 words the text contains, none of 3 characters or fewer and
\* none a stop word, in the order of non-increasing frequency, and words
\* of equal frequency in the order in which the text has them first.
C33_Keywords ==
  keywords.done =>
    LET ws == keywords.value
        words == Tokens(text)
        freq == [i \in DOMAIN ws |-> Frequency(words, ws[i])]
        first == [i \in DOMAIN ws |-> FirstSeen(words, ws[i])]
    IN
      /\ ws = extract_keywords(text)
      /\ Len(ws) <= MaxKeywords
      /\ \A i \in DOMAIN ws :
           /\ freq[i] > 0
           /\ Len(ws[i]) > MinWordLen
           /\ ws[i] \notin stop_words
      /\ \A a, b \in DOMAIN ws :
           a < b => \/ freq[a] > freq[b]
                    \/ freq[a] = freq[b] /\ first[a] < first[b]

\* The keywords of a text that has more than 10 words to choose from, a
\* stop word and a short word among its words, words of equal frequency
\* among the 10 and a word of a higher one.
C33_Witness ==
  /\ keywords.done
  /\ Len(keywords.value) = MaxKeywords
  /\ LET words == Tokens(text) IN
       /\ Cardinality({words[i] : i \in DOMAIN words} \ stop_words) > MaxKeywords + 1
       /\ \E i \in DOMAIN words : words[i] \in stop_words
       /\ \E i \in DOMAIN words : Len(words[i]) <= MinWordLen
       /\ Frequency(words, keywords.value[1]) > Frequency(words, keywords.value[2])
       /\ Frequency(words, keywords.value[2]) = Frequency(words, keywords.value[3])

\* Between position a of a text and the terminator before it, or the
\* beginning of the text, there is nothing but whitespace; and the same
\* between position b and the terminator after it, or the end.
LeftBlank(t, a) ==
  \E l \in 0..(a - 1) : /\ l = 0 \/ Char(t, l) \in Terminators
                        /\ \A k \in (l + 1)..(a - 1) : Char(t, k) \in SpaceChars
RightBlank(t, b) ==
  \E r \in (b + 1)..(Len(t) + 1) : /\ r = Len(t) + 1 \/ Char(t, r) \in Terminators
                                   /\ \A k \in (b + 1)..(r - 1) : Char(t, k) \in SpaceChars

\* The sentences of a text, in their order: what stands between two
\* terminators, or between one and an end of the text, without the
\* whitespace around it, where something stands there.
Sentences(t) ==
  LET inside == {i \in 1..Len(t) : Char(t, i) \notin Terminators \cup SpaceChars}
      firsts == {a \in inside : LeftBlank(t, a)}
      lasts == {b \in inside : RightBlank(t, b)}
  IN [k \in 1..Cardinality(firsts) |-> SubSeq(t, Nth(firsts, k), Nth(lasts, k))]

\* C34: the summary of a text has at most 3 sentences, and is the first 3
\* sentences of the text, or all of them when the text has 3 or fewer or
\* none, joined with ". " and followed by a period.
C34_Summary ==
  summary.done =>
    /\ Len(Sentences(summary.value)) <= MaxSentences
    /\ summary.value = join(". ", Take(Sentences(text), MaxSentences)) \o "."

\* C34, amended: the summary of the empty text is the empty text; the
\* summary of any other text has at most 3 sentences, and is the first 3
\* sentences of the text, or all of them when the text has 3 or fewer or
\* none, joined with ". " and followed by a period.
C34_SummaryOfText ==
  summary.done =>
    /\ Len(Sentences(summary.value)) <= MaxSentences
    /\ text = "" => summary.value = ""
    /\ text # "" => summary.value = join(". ", Take(Sentences(text), MaxSentences)) \o "."

\* The summary of a text of more than 3 sentences.
C34_Witness ==
  /\ summary.done
  /\ Len(Sentences(text)) > MaxSentences
  /\ Len(Sentences(summary.value)) = MaxSentences

\* C35: the log of a completed request has exactly five entries, one for
\* each stage, in the order of the stages, and each of them completed.
C35_CompletedLog ==
  \A j \in JobIds :
    (Exists(j) /\ jobs[j].status = COMPLETED) =>
      /\ Len(LogsOf(j)) = Len(WorkflowStep)
      /\ \A k \in DOMAIN LogsOf(j) :
           /\ LogsOf(j)[k].step = WorkflowStep[k]
           /\ LogsOf(j)[k].status = "completed"

\* C36: the results of a completed request count as found the articles
\* that the gathering returned, as its completed entry recorded them; that
\* many articles are stored for the request, and that many are listed in
\* the results.
C36_ArticleCounts ==
  \A j \in JobIds :
    (Exists(j) /\ jobs[j].status = COMPLETED) =>
      /\ jobs[j].results.total_articles_found = Len(ArticlesOf(j))
      /\ Len(jobs[j].results.top_articles) = Len(ArticlesOf(j))
      /\ \A k \in DOMAIN Entries(j, 2) :
           Entries(j, 2)[k].status = "completed"
             => Entries(j, 2)[k].details.articles_count = jobs[j].results.total_articles_found

\* A completed request for which both sources returned an article.
C36_Witness ==
  \E j \in JobIds :
    /\ Exists(j)
    /\ jobs[j].status = COMPLETED
    /\ task[j].pc = "done"
    /\ jobs[j].results.total_articles_found = MaxWikiItems + MaxHNItems
    /\ Len(ArticlesOf(j)) = MaxWikiItems + MaxHNItems

\* C37: no request id of active_connections is the key of an empty set.
C37_NoEmptySet ==
  \A r \in JobIds : active_connections[r].present => active_connections[r].set # {}

\* C38: a message of a registered subscriber that is not a ping, whether
\* it is no JSON, an object or a JSON value of another shape, leaves the
\* subscriber registered and is not answered.
C38_OtherIgnored ==
  [][\A w \in Sockets : \A data \in ClientData \ {"ping"} :
       (/\ endpoint[w].pc = "open"
        /\ w \in Registered(endpoint[w].request_id)
        /\ websocket_endpoint_receive(w, data))
         => /\ inbox'[w] = inbox[w]
            /\ w \in active_connections'[endpoint[w].request_id].set]_vars

====
